---- MODULE Spec2Model ----
(***************************************************************************)
(* Semantic syntax highlighting of rust-analyzer                           *)
(* (crates/ide/src/syntax_highlighting.rs): the range stack that flattens  *)
(* nested highlights, the traversal driver `highlight`, and the token      *)
(* classifier `highlight_element`; and the lowering of a workspace into the *)
(* crate graph (crates/project_model/src/workspace.rs).                     *)
(***************************************************************************)
EXTENDS Integers, Sequences, FiniteSets, TLC

VARIABLES
    stack,      \* HighlightedRangeStack.stack: the frames, innermost last
    pc,         \* where the program is
    res,        \* what flattened returned (highlight: one result per run)
    last,       \* range-stack specification: the last merge and the stack before it
    adds,       \* range-stack specification: number of add() calls so far
    tree,       \* highlight: the parsed file, its elements in preorder
    syntactic_name_ref_highlighting,    \* highlight: the syntax-only flag
    viewport,   \* highlight: range_to_highlight, <<>> (None) or <<range>>
    run,        \* highlight: which call of highlight is running
    ev,         \* highlight: the walk event to process next
    bindings_shadow_count,
    current_macro_call,         \* 0 (None) or the element
    current_macro_rules,        \* 0 (None) or the element
    macro_rules_highlighter,    \* whether init() gave it a state
    format_string_highlighter,  \* 0 (None) or the string it remembers as format string
    inside_attribute,
    workspace,          \* to_crate_graph: the ProjectWorkspace (self)
    load,               \* to_crate_graph: the root files for which load answers Some
    crate_graph,
    public_deps,        \* what sysroot_to_crate_graph returned: (name, crate) pairs
    libproc_macro,      \* and the proc_macro crate, <<>> (None) or <<crate>>
    pkg_to_lib_crate,
    pkg_crates,
    rustc_pkg_crates

stackvars == <<last, adds>>
treevars == <<tree, syntactic_name_ref_highlighting>>
localvars == <<bindings_shadow_count, current_macro_call, current_macro_rules,
               macro_rules_highlighter, format_string_highlighter, inside_attribute>>
walkvars == <<viewport, run, ev>>
graphvars == <<workspace, load, crate_graph, public_deps, libproc_macro, pkg_to_lib_crate,
               pkg_crates, rustc_pkg_crates>>
vars == <<stack, pc, res, stackvars, treevars, walkvars, localvars, graphvars>>

\* The variables of to_crate_graph while the highlighter is specified
NoWorkspace ==
    /\ workspace = <<>>
    /\ load = {}
    /\ crate_graph = <<>>
    /\ public_deps = <<>>
    /\ libproc_macro = <<>>
    /\ pkg_to_lib_crate = <<>>
    /\ pkg_crates = <<>>
    /\ rustc_pkg_crates = <<>>

(***************************************************************************)
(* Bounds of the model.                                                    *)
(***************************************************************************)
\* Statements in the body of the outermost function of a generated file.
MaxStmts == 3
\* Tokens between the delimiters of a generated macro call's token tree.
MaxArgs == 1
\* Ancestors generated above a classified name or name reference.
MaxChain == 3
\* Offsets of the ranges handed to the range stack lie in 0..MaxOff.
MaxOff == 3
\* Number of add() calls in one behaviour of the range-stack specification.
MaxAdds == 3
\* Number of frames the range-stack specification opens at most.
MaxDepth == 2

(***************************************************************************)
(* TextRange (text-size crate, used through syntax::TextRange): half-open  *)
(* [s, e) with s <= e.                                                     *)
(***************************************************************************)
Max(a, b) == IF a >= b THEN a ELSE b
Min(a, b) == IF a <= b THEN a ELSE b

Last(q) == q[Len(q)]
Front(q) == SubSeq(q, 1, Len(q) - 1)

\* TextRange::contains_range
contains_range(r, o) == r.s <= o.s /\ o.e <= r.e
\* TextRange::contains (an offset)
contains(r, off) == r.s <= off /\ off < r.e
\* TextRange::is_empty
is_empty(r) == r.s = r.e
\* TextRange::intersect(..).is_some(): touching ranges do intersect
intersects(a, b) == Max(a.s, b.s) <= Min(a.e, b.e)

(***************************************************************************)
(* Highlight = tag + modifier set; HighlightedRange = range, highlight,    *)
(* optional binding hash.                                                  *)
(***************************************************************************)
NoHash == <<>>
Hl(tag, mods) == [tag |-> tag, mods |-> mods]
HighlightedRange(s, e, h, b) == [s |-> s, e |-> e, h |-> h, b |-> b]

(***************************************************************************)
(* HighlightedRangeStack                                                   *)
(***************************************************************************)
Ok(st) == [ok |-> TRUE, st |-> st, why |-> ""]
Panic(why) == [ok |-> FALSE, st |-> <<>>, why |-> why]

new == << <<>> >>

push(st) == Append(st, <<>>)

add(st, range) == [st EXCEPT ![Len(st)] = Append(@, range)]

\* Mutant of intersect: the clone starts at the child's start
intersect_clone_from_child_start(parent, child) ==
    << [parent EXCEPT !.e = child.s], [parent EXCEPT !.s = child.s] >>

\* intersect: <<parent cut to the part before child, clone covering the part after>>
intersect(parent, child) ==
    << [parent EXCEPT !.e = child.s], [parent EXCEPT !.s = child.e] >>

NonEmpty(r) == IF is_empty(r) THEN <<>> ELSE <<r>>

\* Mutant of pop_loop: no containment assertion, a child is taken as it comes
RECURSIVE pop_loop_unasserted(_, _, _)
pop_loop_unasserted(prev, parent, children) ==
    IF children = <<>> THEN Ok(prev \o NonEmpty(parent))
    ELSE LET ele == Head(children)
             pc2 == intersect(parent, ele)
         IN pop_loop_unasserted(prev \o NonEmpty(pc2[1]) \o <<ele>>, pc2[2], Tail(children))

\* The loop of pop's flattening branch: prev is the enclosing frame without
\* its last entry, parent that entry (then the clone after each child).
RECURSIVE pop_loop(_, _, _)
pop_loop(prev, parent, children) ==
    IF children = <<>> THEN Ok(prev \o NonEmpty(parent))
    ELSE LET ele == Head(children) IN
         IF ~contains_range(parent, ele) THEN Panic("pop: parent does not contain child")
         ELSE LET pc2 == intersect(parent, ele) IN
              pop_loop(prev \o NonEmpty(pc2[1]) \o <<ele>>, pc2[2], Tail(children))

\* Mutant of pop: needs_flattening does not test children.is_empty(), so
\* children.first().unwrap() aborts on an empty frame
pop_unchecked_first(st) ==
    IF Len(st) < 2 THEN Panic("pop: unwrap on an empty stack")
    ELSE LET children == Last(st)
             rest == Front(st)
             prev == Last(rest)
         IN IF prev = <<>> THEN Ok([rest EXCEPT ![Len(rest)] = prev \o children])
            ELSE IF children = <<>> THEN Panic("pop: unwrap on an empty frame")
            ELSE IF ~contains_range(Last(prev), children[1])
            THEN Ok([rest EXCEPT ![Len(rest)] = prev \o children])
            ELSE LET r == pop_loop(Front(prev), Last(prev), children)
                 IN IF r.ok THEN Ok([rest EXCEPT ![Len(rest)] = r.st]) ELSE r

\* Mutant of pop: in the sibling case the children are appended last first
pop_appending_reversed(st) ==
    IF Len(st) < 2 THEN Panic("pop: unwrap on an empty stack")
    ELSE LET children == Last(st)
             rest == Front(st)
             prev == Last(rest)
             needs_flattening ==
                 /\ children # <<>>
                 /\ prev # <<>>
                 /\ contains_range(Last(prev), children[1])
         IN IF ~needs_flattening
            THEN Ok([rest EXCEPT ![Len(rest)] =
                        prev \o [i \in 1..Len(children) |-> children[Len(children) + 1 - i]]])
            ELSE LET r == pop_loop(Front(prev), Last(prev), children)
                 IN IF r.ok THEN Ok([rest EXCEPT ![Len(rest)] = r.st]) ELSE r

pop(st) ==
    IF Len(st) < 2 THEN Panic("pop: unwrap on an empty stack")
    ELSE LET children == Last(st)
             rest == Front(st)
             prev == Last(rest)
             needs_flattening ==
                 /\ children # <<>>
                 /\ prev # <<>>
                 /\ contains_range(Last(prev), children[1])
         IN IF ~needs_flattening
            THEN Ok([rest EXCEPT ![Len(rest)] = prev \o children])
            ELSE LET r == pop_loop(Front(prev), Last(prev), children)
                 IN IF r.ok THEN Ok([rest EXCEPT ![Len(rest)] = r.st]) ELSE r

\* sort_by_key(|range| range.range.start()): a stable sort
RECURSIVE insert_sorted(_, _)
insert_sorted(q, x) ==
    IF q = <<>> THEN <<x>>
    ELSE IF Last(q).s <= x.s THEN Append(q, x)
    ELSE Append(insert_sorted(Front(q), x), Last(q))

RECURSIVE sort_by_start(_)
sort_by_start(q) ==
    IF q = <<>> THEN <<>> ELSE insert_sorted(sort_by_start(Front(q)), Last(q))

\* Vec::insert at 0-based index idx, Vec::remove at 0-based index idx
insert(q, idx, x) == SubSeq(q, 1, idx) \o <<x>> \o SubSeq(q, idx + 1, Len(q))
remove(q, idx) == SubSeq(q, 1, idx) \o SubSeq(q, idx + 2, Len(q))

\* iter().position(p): 0-based index of the first entry satisfying p, or -1
position_containing_range(prev, child) ==
    LET hits == {i \in 1..Len(prev) : contains_range(prev[i], child)}
    IN IF hits = {} THEN -1 ELSE (CHOOSE i \in hits : \A j \in hits : i <= j) - 1

position_containing_start(prev, child) ==
    LET hits == {i \in 1..Len(prev) : contains(prev[i], child.s)}
    IN IF hits = {} THEN -1 ELSE (CHOOSE i \in hits : \A j \in hits : i <= j) - 1

\* binary_search_by_key(..).unwrap_or_else(|x| x): the 0-based indices the
\* standard library may return.  With several entries of the searched key
\* any of them may be returned; without one, an insertion point between a
\* smaller and a larger key.
binary_search_by_start(prev, key) ==
    LET found == {i \in 0..(Len(prev) - 1) : prev[i + 1].s = key}
    IN IF found # {} THEN found
       ELSE {x \in 0..Len(prev) :
                /\ (x = 0 \/ prev[x].s < key)
                /\ (x = Len(prev) \/ prev[x + 1].s > key)}

\* Mutant of inject_contained: the replacement tag is put on the part before
\* the child only (the clone is taken before the overwrite)
inject_contained_clone_first(prev, idx, child, overwrite_parent) ==
    LET pc2 == intersect(prev[idx + 1], child)
        before == IF overwrite_parent = <<>> THEN pc2[1]
                  ELSE [pc2[1] EXCEPT !.h = overwrite_parent[1]]
    IN SubSeq(prev, 1, idx) \o NonEmpty(before) \o <<child>> \o NonEmpty(pc2[2])
           \o SubSeq(prev, idx + 2, Len(prev))

\* The contained-child branch of pop_and_inject's loop body.
inject_contained(prev, idx, child, overwrite_parent) ==
    LET tagged == IF overwrite_parent = <<>> THEN prev
                  ELSE [prev EXCEPT ![idx + 1].h = overwrite_parent[1]]
        pc2 == intersect(tagged[idx + 1], child)
        cut == [tagged EXCEPT ![idx + 1] = pc2[1]]
        removed == IF is_empty(pc2[1]) THEN remove(cut, idx) ELSE cut
        insert_idx == IF is_empty(pc2[1]) THEN idx ELSE idx + 1
        withChild == insert(removed, insert_idx, child)
    IN IF is_empty(pc2[2]) THEN withChild ELSE insert(withChild, insert_idx + 1, pc2[2])

\* intersect_partial and the splice of the (Some(_), Some(idx)) arm; the
\* assertion of intersect_partial holds here: the entry contains the child's
\* start and not the child.
inject_partial(prev, idx, child) ==
    LET cutp == [prev[idx + 1] EXCEPT !.e = child.s]
        cut == [prev EXCEPT ![idx + 1] = cutp]
        removed == IF is_empty(cutp) THEN remove(cut, idx) ELSE cut
        insert_idx == IF is_empty(cutp) THEN idx ELSE idx + 1
    IN insert(removed, insert_idx, child)

\* One iteration of `for child in children`: the set of outcomes.
inject_child(prev, child, overwrite_parent) ==
    LET idx == position_containing_range(prev, child) IN
    IF idx >= 0 THEN {Ok(inject_contained(prev, idx, child, overwrite_parent))}
    ELSE LET maybe_idx == position_containing_start(prev, child) IN
         IF maybe_idx >= 0
         THEN IF overwrite_parent # <<>>
              THEN IF child.e > prev[maybe_idx + 1].e
                   THEN {Ok(inject_partial(prev, maybe_idx, child))}
                   ELSE {Panic("intersect_partial: assertion")}
              ELSE {Panic("unreachable: child range should be completely contained")}
         ELSE {Ok(insert(prev, i, child)) : i \in binary_search_by_start(prev, child.s)}

RECURSIVE inject_loop(_, _, _)
inject_loop(prevs, children, overwrite_parent) ==
    IF children = <<>> THEN prevs
    ELSE inject_loop(
           UNION {IF r.ok THEN inject_child(r.st, Head(children), overwrite_parent)
                  ELSE {r} : r \in prevs},
           Tail(children), overwrite_parent)

\* pop_and_inject: the set of outcomes; overwrite_parent is <<>> (None) or
\* <<highlight>> (Some).
pop_and_inject(st, overwrite_parent) ==
    IF Len(st) < 2 THEN {Panic("pop_and_inject: unwrap on an empty stack")}
    ELSE LET children == sort_by_start(Last(st))
             rest == Front(st)
             prev == sort_by_start(Last(rest))
         IN {IF r.ok THEN Ok([rest EXCEPT ![Len(rest)] = r.st]) ELSE r :
                r \in inject_loop({Ok(prev)}, children, overwrite_parent)}

\* The check of flattened over the sorted frame
sorted_disjoint(q) == \A i \in 1..(Len(q) - 1) : q[i].e <= q[i + 1].s

\* Mutant of flattened: the frame is returned as it is, not sorted, not checked
flattened_as_is(st) ==
    IF Len(st) # 1 THEN Panic("flattened: more than one frame") ELSE Ok(st[1])

flattened(st) ==
    IF Len(st) # 1 THEN Panic("flattened: more than one frame")
    ELSE LET sorted == sort_by_start(st[1])
         IN IF sorted_disjoint(sorted) THEN Ok(sorted)
            ELSE Panic("flattened: ranges overlap")

(***************************************************************************)
(* Syntax kinds and the semantic answers attached to an element.           *)
(*                                                                         *)
(* An element's `sem` record holds what the semantic collaborators answer  *)
(* about it: NameClass / NameRefClass (cls, def), the properties of the    *)
(* definition (d), the method-call resolution (method), and the facts the  *)
(* lexer knows about a token (doc comment, escape ranges of a string).     *)
(***************************************************************************)
Puncts ==
    {"AMP", "COLON2", "THIN_ARROW", "FAT_ARROW", "DOT2", "EQ", "AT", "DOT", "BANG",
     "STAR", "MINUS", "PLUS", "L_PAREN", "R_PAREN", "L_CURLY", "R_CURLY", "L_BRACK",
     "R_BRACK", "POUND", "SEMICOLON", "COMMA", "DOLLAR", "QUESTION"}
ControlFlowKeywords ==
    {"BREAK_KW", "CONTINUE_KW", "ELSE_KW", "IF_KW", "LOOP_KW", "MATCH_KW",
     "RETURN_KW", "WHILE_KW", "IN_KW"}
Keywords ==
    ControlFlowKeywords \cup
    {"FOR_KW", "UNSAFE_KW", "TRUE_KW", "FALSE_KW", "SELF_KW", "REF_KW", "FN_KW",
     "LET_KW", "STRUCT_KW", "TYPE_KW", "MUT_KW"}
is_punct(kind) == kind \in Puncts
is_keyword(kind) == kind \in Keywords

Names == {"x", "y"}

\* The properties of a hir definition that highlight_def and its callers read
Def0 ==
    [variant |-> "Local", is_assoc |-> FALSE, has_self |-> FALSE, is_unsafe |-> FALSE,
     is_mut |-> FALSE, is_param |-> FALSE, mut_ref |-> FALSE, callable |-> FALSE,
     is_copy |-> TRUE, union_field |-> FALSE, is_self |-> FALSE]

\* sema.resolve_method_call and what highlight_method_call reads of the callee
Method0 ==
    [resolved |-> FALSE, func_unsafe |-> FALSE, call_unsafe |-> FALSE,
     has_self |-> TRUE, access |-> "Shared", recv_ty |-> TRUE, recv_copy |-> TRUE]

Sem0 ==
    [cls |-> "None", rcls |-> "None", d |-> Def0, name |-> "", local |-> 0, method |-> Method0,
     doc |-> FALSE, upper |-> FALSE, unsafe_ctx |-> FALSE, field_union |-> FALSE,
     self_mut |-> FALSE, path_local |-> <<>>,
     prefix |-> [expr |-> TRUE, ty |-> TRUE, raw_ptr |-> FALSE, deref |-> TRUE, literal |-> FALSE],
     char_ranges |-> FALSE, escapes |-> <<>>, raw |-> FALSE, exp |-> <<>>,
     metavar |-> FALSE, range_end |-> 0,
     fmt_found |-> 0, fmt_id |-> 0, specifiers |-> <<>>]

NoHighlight == [some |-> FALSE, h |-> Hl("", {}), b |-> NoHash]
Some(h, b) == [some |-> TRUE, h |-> h, b |-> b]
WithMod(h, m) == [h EXCEPT !.mods = @ \cup {m}]
WithModIf(h, cond, m) == IF cond THEN WithMod(h, m) ELSE h

\* calc_binding_hash: the hash of the pair (name, shadow_count).  The
\* standard hasher is deterministic (fixed keys); the hash is kept as the
\* pair it is computed from, so two hashes are equal exactly when name and
\* count are (no collision of the 64-bit hash is modelled).
calc_binding_hash(name, shadow_count) == <<name, shadow_count>>

\* bindings_shadow_count: a name that is absent counts 0 (entry().or_default())
ShadowCleared == [n \in Names |-> 0]

highlight_def(d) ==
    CASE d.variant = "Macro" -> Hl("Macro", {})
      [] d.variant = "Field" -> Hl("Field", {})
      [] d.variant = "Module" -> Hl("Module", {})
      [] d.variant = "Function" ->
            WithModIf(
              WithModIf(
                WithModIf(Hl("Function", {}), d.is_assoc, "associated"),
                d.is_assoc /\ ~d.has_self, "static"),
              d.is_unsafe, "unsafe")
      [] d.variant = "Struct" -> Hl("Struct", {})
      [] d.variant = "Enum" -> Hl("Enum", {})
      [] d.variant = "Union" -> Hl("Union", {})
      [] d.variant = "Variant" -> Hl("Variant", {})
      [] d.variant = "Const" -> WithModIf(Hl("Const", {}), d.is_assoc, "associated")
      [] d.variant = "Trait" -> Hl("Trait", {})
      [] d.variant = "TypeAlias" -> WithModIf(Hl("TypeAlias", {}), d.is_assoc, "associated")
      [] d.variant = "BuiltinType" -> Hl("BuiltinType", {})
      [] d.variant = "Static" ->
            IF d.is_mut THEN Hl("Static", {"mutable", "unsafe"}) ELSE Hl("Static", {})
      [] d.variant = "SelfType" -> Hl("Impl", {})
      [] d.variant = "TypeParam" -> Hl("TypeParam", {})
      [] d.variant = "ConstParam" -> Hl("ConstParam", {})
      [] d.variant = "Local" ->
            WithModIf(
              WithModIf(Hl(IF d.is_param THEN "ValueParam" ELSE "Local", {}),
                        d.is_mut \/ d.mut_ref, "mutable"),
              d.callable, "callable")
      [] d.variant = "LifetimeParam" -> Hl("LifetimeParam", {})
      [] d.variant = "Label" -> Hl("Label", {})

DefVariants ==
    {"Macro", "Field", "Module", "Function", "Struct", "Enum", "Union", "Variant",
     "Const", "Trait", "TypeAlias", "BuiltinType", "Static", "SelfType", "TypeParam",
     "ConstParam", "Local", "LifetimeParam", "Label"}

\* Mutant of parents_match: running out of ancestors counts as a match
RECURSIVE parents_match_while_any(_, _)
parents_match_while_any(anc, kinds) ==
    IF anc # <<>> /\ kinds # <<>>
    THEN IF Head(anc) # Head(kinds) THEN FALSE
         ELSE parents_match_while_any(Tail(anc), Tail(kinds))
    ELSE TRUE

\* parents_match: anc is the chain of ancestor kinds, the parent first; the
\* loop walks up while there is a parent and a kind left to compare
RECURSIVE parents_match(_, _)
parents_match(anc, kinds) ==
    IF anc # <<>> /\ kinds # <<>>
    THEN IF Head(anc) # Head(kinds) THEN FALSE
         ELSE parents_match(Tail(anc), Tail(kinds))
    ELSE kinds = <<>>

is_consumed_lvalue(anc, d) ==
    parents_match(anc, <<"PATH_SEGMENT", "PATH", "PATH_EXPR", "ARG_LIST">>) /\ ~d.is_copy

is_child_of_impl(anc) == Len(anc) >= 1 /\ anc[1] = "IMPL"

ParentKind(anc) == IF Len(anc) >= 1 THEN anc[1] ELSE "NONE"

\* Mutant of highlight_method_call: a receiver of unknown type counts as not copy
highlight_method_call_unknown_receiver(m) ==
    IF ~m.resolved THEN <<>>
    ELSE LET h1 == WithModIf(Hl("Function", {"associated"}),
                             m.func_unsafe \/ m.call_unsafe, "unsafe")
             h2 == IF ~m.has_self THEN h1
                   ELSE CASE m.access = "Shared" -> h1
                          [] m.access = "Exclusive" -> WithMod(h1, "mutable")
                          [] m.access = "Owned" ->
                               WithModIf(h1, ~(m.recv_ty /\ m.recv_copy), "consuming")
         IN <<h2>>

\* highlight_method_call: <<>> when the callee does not resolve
highlight_method_call(m) ==
    IF ~m.resolved THEN <<>>
    ELSE LET h1 == WithModIf(Hl("Function", {"associated"}),
                             m.func_unsafe \/ m.call_unsafe, "unsafe")
             h2 == IF ~m.has_self THEN h1
                   ELSE CASE m.access = "Shared" -> h1
                          [] m.access = "Exclusive" -> WithMod(h1, "mutable")
                          [] m.access = "Owned" ->
                               WithModIf(h1, m.recv_ty /\ ~m.recv_copy, "consuming")
         IN <<h2>>

\* highlight_func_by_name_ref: only a name reference whose parent is a method call
highlight_func_by_name_ref(anc, sem) ==
    IF ParentKind(anc) = "METHOD_CALL_EXPR" THEN highlight_method_call(sem.method) ELSE <<>>

highlight_name_by_syntax(anc) ==
    LET parent == ParentKind(anc) IN
    CASE parent = "STRUCT" -> Hl("Struct", {})
      [] parent = "ENUM" -> Hl("Enum", {})
      [] parent = "VARIANT" -> Hl("Variant", {})
      [] parent = "UNION" -> Hl("Union", {})
      [] parent = "TRAIT" -> Hl("Trait", {})
      [] parent = "TYPE_ALIAS" -> Hl("TypeAlias", {})
      [] parent = "TYPE_PARAM" -> Hl("TypeParam", {})
      [] parent = "RECORD_FIELD" -> Hl("Field", {})
      [] parent = "MODULE" -> Hl("Module", {})
      [] parent = "FN" -> Hl("Function", {})
      [] parent = "CONST" -> Hl("Const", {})
      [] parent = "STATIC" -> Hl("Static", {})
      [] parent = "IDENT_PAT" -> Hl("Local", {})
      [] OTHER -> Hl("UnresolvedReference", {})

\* Mutant of highlight_name_ref_by_syntax: a path expression without a
\* parent is treated like one under any parent but a call
highlight_name_ref_by_syntax_rootless(anc, sem) ==
    LET parent == ParentKind(anc) IN
    CASE parent = "METHOD_CALL_EXPR" ->
            LET m == highlight_method_call(sem.method)
            IN IF m # <<>> THEN m[1] ELSE Hl("Function", {})
      [] parent = "FIELD_EXPR" -> WithModIf(Hl("Field", {}), sem.field_union, "unsafe")
      [] parent = "PATH_SEGMENT" ->
            IF ~(Len(anc) >= 2 /\ anc[2] = "PATH") THEN Hl("UnresolvedReference", {})
            ELSE IF ~(Len(anc) >= 3 /\ anc[3] = "PATH_EXPR")
            THEN Hl(IF sem.upper THEN "Struct" ELSE "Module", {})
            ELSE IF Len(anc) >= 4 /\ anc[4] = "CALL_EXPR" THEN Hl("Function", {})
            ELSE Hl(IF sem.upper THEN "Struct" ELSE "Const", {})
      [] OTHER -> Hl("UnresolvedReference", {})

highlight_name_ref_by_syntax(anc, sem) ==
    LET parent == ParentKind(anc) IN
    CASE parent = "METHOD_CALL_EXPR" ->
            LET m == highlight_method_call(sem.method)
            IN IF m # <<>> THEN m[1] ELSE Hl("Function", {})
      [] parent = "FIELD_EXPR" -> WithModIf(Hl("Field", {}), sem.field_union, "unsafe")
      [] parent = "PATH_SEGMENT" ->
            IF ~(Len(anc) >= 2 /\ anc[2] = "PATH") THEN Hl("UnresolvedReference", {})
            ELSE IF ~(Len(anc) >= 3 /\ anc[3] = "PATH_EXPR")
            THEN Hl(IF sem.upper THEN "Struct" ELSE "Module", {})
            ELSE IF Len(anc) < 4 THEN Hl("UnresolvedReference", {})
            ELSE IF anc[4] = "CALL_EXPR" THEN Hl("Function", {})
            ELSE Hl(IF sem.upper THEN "Struct" ELSE "Const", {})
      [] OTHER -> Hl("UnresolvedReference", {})

\* The result of highlight_element: the optional (highlight, binding hash)
\* and the shadow-count table it leaves.
Classified(r, shadow) == [some |-> r.some, h |-> r.h, b |-> r.b, shadow |-> shadow]

\* Mutant of highlight_name: a defining name is tagged like a reference,
\* without the definition modifier
highlight_name_like_ref(anc, sem, shadow) ==
    LET is_local == sem.cls = "Definition" /\ sem.d.variant = "Local" /\ sem.name # ""
        shadow2 == IF is_local THEN [shadow EXCEPT ![sem.name] = @ + 1] ELSE shadow
    IN Classified(Some(highlight_def(sem.d),
                       IF is_local THEN calc_binding_hash(sem.name, shadow2[sem.name])
                       ELSE NoHash),
                  shadow2)

\* NAME: sem.cls is what NameClass::classify answers
highlight_name(anc, sem, shadow) ==
    LET is_local == sem.cls = "Definition" /\ sem.d.variant = "Local" /\ sem.name # ""
        shadow2 == IF is_local THEN [shadow EXCEPT ![sem.name] = @ + 1] ELSE shadow
        binding_hash == IF is_local THEN calc_binding_hash(sem.name, shadow2[sem.name])
                        ELSE NoHash
        h == CASE sem.cls = "ExternCrate" -> Hl("Module", {})
               [] sem.cls = "Definition" -> WithMod(highlight_def(sem.d), "definition")
               [] sem.cls = "ConstReference" -> highlight_def(sem.d)
               [] sem.cls = "PatFieldShorthand" ->
                    WithModIf(Hl("Field", {}),
                              sem.d.variant = "Field" /\ sem.d.union_field, "unsafe")
               [] OTHER -> WithMod(highlight_name_by_syntax(anc), "definition")
    IN Classified(Some(h, binding_hash), shadow2)

\* NAME_REF outside attributes: sem.rcls is what NameRefClass::classify answers
highlight_name_ref(anc, sem, shadow, syntactic) ==
    LET by_method == highlight_func_by_name_ref(anc, sem)
        is_local == sem.rcls = "Definition" /\ sem.d.variant = "Local"
        binding_hash == IF by_method = <<>> /\ is_local /\ sem.name # ""
                        THEN calc_binding_hash(sem.name, shadow[sem.name])
                        ELSE NoHash
        h == IF by_method # <<>> THEN by_method[1]
             ELSE CASE sem.rcls = "ExternCrate" -> Hl("Module", {})
                    [] sem.rcls = "Definition" ->
                         WithModIf(
                           WithModIf(highlight_def(sem.d),
                                     is_local /\ is_consumed_lvalue(anc, sem.d), "consuming"),
                           /\ ParentKind(anc) \in {"FIELD_EXPR", "RECORD_PAT_FIELD"}
                           /\ sem.d.variant = "Field"
                           /\ sem.d.union_field,
                           "unsafe")
                    [] sem.rcls = "FieldShorthand" -> Hl("Field", {})
                    [] OTHER ->
                         IF syntactic
                         THEN highlight_name_ref_by_syntax(anc, sem)
                         ELSE Hl("UnresolvedReference", {})
    IN Classified(Some(h, binding_hash), shadow)

highlight_lifetime(sem) ==
    CASE sem.cls = "Definition" -> WithMod(highlight_def(sem.d), "definition")
      [] sem.cls = "None" ->
            IF sem.rcls = "Definition" THEN highlight_def(sem.d)
            ELSE Hl("LifetimeParam", {})
      [] OTHER -> Hl("LifetimeParam", {"definition"})

\* p if p.is_punct(): the parent kind decides among the casts
highlight_punct(kind, anc, sem) ==
    LET parent == ParentKind(anc) IN
    CASE kind = "AMP" ->
            Some(WithModIf(Hl("Operator", {}), parent = "REF_EXPR" /\ sem.unsafe_ctx, "unsafe"),
                 NoHash)
      [] kind \in {"COLON2", "THIN_ARROW", "FAT_ARROW", "DOT2", "EQ", "AT", "DOT"} ->
            Some(Hl("Operator", {}), NoHash)
      [] kind = "BANG" /\ parent = "MACRO_CALL" -> Some(Hl("Macro", {}), NoHash)
      [] kind = "BANG" /\ parent = "NEVER_TYPE" -> Some(Hl("BuiltinType", {}), NoHash)
      [] kind = "STAR" /\ parent = "PTR_TYPE" -> Some(Hl("Keyword", {}), NoHash)
      [] kind = "STAR" /\ parent = "PREFIX_EXPR" ->
            IF ~sem.prefix.expr \/ ~sem.prefix.ty THEN NoHighlight
            ELSE IF sem.prefix.raw_ptr THEN Some(Hl("Operator", {"unsafe"}), NoHash)
            ELSE IF sem.prefix.deref THEN Some(Hl("Operator", {}), NoHash)
            ELSE Some(Hl("Punctuation", {}), NoHash)
      [] kind = "MINUS" /\ parent = "PREFIX_EXPR" ->
            IF ~sem.prefix.expr THEN NoHighlight
            ELSE IF sem.prefix.literal THEN Some(Hl("NumericLiteral", {}), NoHash)
            ELSE Some(Hl("Operator", {}), NoHash)
      [] OTHER ->
            IF parent \in {"PREFIX_EXPR", "BIN_EXPR", "RANGE_EXPR", "RANGE_PAT", "REST_PAT"}
            THEN Some(Hl("Operator", {}), NoHash)
            ELSE IF parent = "ATTR" THEN Some(Hl("Attribute", {}), NoHash)
            ELSE Some(Hl("Punctuation", {}), NoHash)

\* Mutant of highlight_keyword: `for` is control flow whatever its parent
highlight_keyword_for_anywhere(kind, anc, sem) ==
    LET h == Hl("Keyword", {})
        self_path == IF Len(anc) >= 2 /\ anc[2] = "PATH" THEN sem.path_local ELSE <<>>
    IN
    CASE kind \in ControlFlowKeywords \cup {"FOR_KW"} -> WithMod(h, "control_flow")
      [] kind = "UNSAFE_KW" -> WithMod(h, "unsafe")
      [] kind \in {"TRUE_KW", "FALSE_KW"} -> Hl("BoolLiteral", {})
      [] kind = "SELF_KW" ->
            WithModIf(
              WithModIf(Hl("SelfParam", {}),
                        \/ (ParentKind(anc) = "SELF_PARAM" /\ sem.self_mut)
                        \/ /\ self_path # <<>>
                           /\ self_path[1].is_self
                           /\ (self_path[1].is_mut \/ self_path[1].mut_ref),
                        "mutable"),
              self_path # <<>> /\ is_consumed_lvalue(anc, self_path[1]),
              "consuming")
      [] kind = "REF_KW" ->
            WithModIf(h, ParentKind(anc) = "IDENT_PAT" /\ sem.unsafe_ctx, "unsafe")
      [] OTHER -> h

\* k if k.is_keyword()
highlight_keyword(kind, anc, sem) ==
    LET h == Hl("Keyword", {})
        self_path == IF Len(anc) >= 2 /\ anc[2] = "PATH" THEN sem.path_local ELSE <<>>
    IN
    CASE kind \in ControlFlowKeywords -> WithMod(h, "control_flow")
      [] kind = "FOR_KW" /\ ~is_child_of_impl(anc) -> WithMod(h, "control_flow")
      [] kind = "UNSAFE_KW" -> WithMod(h, "unsafe")
      [] kind \in {"TRUE_KW", "FALSE_KW"} -> Hl("BoolLiteral", {})
      [] kind = "SELF_KW" ->
            WithModIf(
              WithModIf(Hl("SelfParam", {}),
                        \/ (ParentKind(anc) = "SELF_PARAM" /\ sem.self_mut)
                        \/ /\ self_path # <<>>
                           /\ self_path[1].is_self
                           /\ (self_path[1].is_mut \/ self_path[1].mut_ref),
                        "mutable"),
              self_path # <<>> /\ is_consumed_lvalue(anc, self_path[1]),
              "consuming")
      [] kind = "REF_KW" ->
            WithModIf(h, ParentKind(anc) = "IDENT_PAT" /\ sem.unsafe_ctx, "unsafe")
      [] OTHER -> h

\* highlight_element: kind and ancestor kinds of the element, the semantic
\* answers about it, the shadow-count table and the syntax-only flag.
highlight_element(kind, anc, sem, shadow, syntactic) ==
    CASE kind = "FN" -> Classified(NoHighlight, ShadowCleared)
      [] kind = "NAME" -> highlight_name(anc, sem, shadow)
      [] kind = "NAME_REF" ->
            IF \E i \in 1..Len(anc) : anc[i] = "ATTR"
            THEN Classified(Some(Hl("Function", {}), NoHash), shadow)
            ELSE highlight_name_ref(anc, sem, shadow, syntactic)
      [] kind = "COMMENT" ->
            Classified(Some(WithModIf(Hl("Comment", {}), sem.doc, "documentation"), NoHash),
                       shadow)
      [] kind \in {"STRING", "BYTE_STRING"} ->
            Classified(Some(Hl("StringLiteral", {}), NoHash), shadow)
      [] kind = "ATTR" -> Classified(Some(Hl("Attribute", {}), NoHash), shadow)
      [] kind \in {"INT_NUMBER", "FLOAT_NUMBER"} ->
            Classified(Some(Hl("NumericLiteral", {}), NoHash), shadow)
      [] kind = "BYTE" -> Classified(Some(Hl("ByteLiteral", {}), NoHash), shadow)
      [] kind = "CHAR" -> Classified(Some(Hl("CharLiteral", {}), NoHash), shadow)
      [] kind = "QUESTION" ->
            Classified(Some(Hl("Operator", {"control_flow"}), NoHash), shadow)
      [] kind = "LIFETIME" -> Classified(Some(highlight_lifetime(sem), NoHash), shadow)
      [] is_punct(kind) /\ kind # "QUESTION" ->
            Classified(highlight_punct(kind, anc, sem), shadow)
      [] is_keyword(kind) -> Classified(Some(highlight_keyword(kind, anc, sem), NoHash), shadow)
      [] OTHER -> Classified(NoHighlight, shadow)

(***************************************************************************)
(* Syntax trees.  A file is written as a term (node with children, token   *)
(* with a width) and flattened into its elements in preorder; an element   *)
(* knows its parent, its text range and its last descendant.               *)
(***************************************************************************)
Tok(kind, w, sem) == [kind |-> kind, tok |-> TRUE, w |-> w, ch |-> <<>>, sem |-> sem]
Node(kind, ch, sem) == [kind |-> kind, tok |-> FALSE, w |-> 0, ch |-> ch, sem |-> sem]

RECURSIVE Width(_), WidthAll(_)
Width(t) == IF t.tok THEN t.w ELSE WidthAll(t.ch)
WidthAll(ch) == IF ch = <<>> THEN 0 ELSE Width(Head(ch)) + WidthAll(Tail(ch))

RECURSIVE Flat(_, _, _, _), FlatAll(_, _, _, _)
Flat(t, parent, start, id) ==
    LET kids == FlatAll(t.ch, id, start, id + 1) IN
    <<[kind |-> t.kind, tok |-> t.tok, parent |-> parent, s |-> start,
       e |-> start + Width(t), last |-> id + Len(kids), sem |-> t.sem]>> \o kids
FlatAll(ch, parent, start, id) ==
    IF ch = <<>> THEN <<>>
    ELSE LET f == Flat(Head(ch), parent, start, id)
         IN f \o FlatAll(Tail(ch), parent, start + Width(Head(ch)), id + Len(f))

\* SyntaxNode::ancestors, the parent first
RECURSIVE Ancestors(_, _)
Ancestors(t, i) ==
    IF t[i].parent = 0 THEN <<>> ELSE <<t[i].parent>> \o Ancestors(t, t[i].parent)
AncestorKinds(t, i) == LET a == Ancestors(t, i) IN [k \in 1..Len(a) |-> t[a[k]].kind]
InSeq(x, q) == \E k \in 1..Len(q) : q[k] = x
FirstOfKind(t, a, kinds) ==
    IF \E k \in 1..Len(a) : t[a[k]].kind \in kinds
    THEN a[CHOOSE k \in 1..Len(a) :
               /\ t[a[k]].kind \in kinds
               /\ \A j \in 1..(k - 1) : t[a[j]].kind \notin kinds]
    ELSE 0

\* Name resolution of the semantic model for plain local variables: a name
\* reference written as "Lexical" resolves to the latest earlier binding of
\* its name whose block encloses the reference, inside the same function;
\* without one it does not resolve.
IsLocalBinding(e) ==
    e.kind = "NAME" /\ e.sem.cls = "Definition" /\ e.sem.d.variant = "Local"
VisibleBinding(t, i) ==
    LET mine == Ancestors(t, i)
        cands == {d \in 1..(i - 1) :
                    /\ IsLocalBinding(t[d])
                    /\ t[d].sem.name = t[i].sem.name
                    /\ InSeq(FirstOfKind(t, Ancestors(t, d), {"BLOCK_EXPR"}), mine)
                    /\ FirstOfKind(t, Ancestors(t, d), {"FN"}) = FirstOfKind(t, mine, {"FN"})}
    IN IF cands = {} THEN 0 ELSE CHOOSE d \in cands : \A c \in cands : c <= d
Resolve(t) ==
    [i \in 1..Len(t) |->
        IF IsLocalBinding(t[i]) THEN [t[i] EXCEPT !.sem.local = i]
        ELSE IF t[i].kind = "NAME_REF" /\ t[i].sem.rcls = "Lexical"
        THEN LET d == VisibleBinding(t, i) IN
             IF d = 0 THEN [t[i] EXCEPT !.sem.rcls = "None"]
             ELSE [t[i] EXCEPT !.sem.rcls = "Definition", !.sem.d = t[d].sem.d,
                               !.sem.local = d]
        ELSE t[i]]

Parse(term) == Resolve(Flat(term, 0, 0, 1))

(***************************************************************************)
(* The files the traversal is run on.                                      *)
(***************************************************************************)
SeqsUpTo(S, n) == UNION {[1..k -> S] : k \in 0..n}

Ident == Tok("IDENT", 1, Sem0)
Punct(kind) == Tok(kind, 1, Sem0)
LetBinding(n) == Node("NAME", <<Ident>>, [Sem0 EXCEPT !.cls = "Definition", !.name = n])
LocalRef(n) == Node("NAME_REF", <<Ident>>, [Sem0 EXCEPT !.rcls = "Lexical", !.name = n])
UnresolvedRef == Node("NAME_REF", <<Ident>>, Sem0)
Block(body) == Node("BLOCK_EXPR", <<Punct("L_CURLY")>> \o body \o <<Punct("R_CURLY")>>, Sem0)
FnName ==
    Node("NAME", <<Ident>>,
         [Sem0 EXCEPT !.cls = "Definition", !.d = [Def0 EXCEPT !.variant = "Function"]])
FnItem(body) == Node("FN", <<Tok("FN_KW", 2, Sem0), FnName, Block(body)>>, Sem0)
SourceFile(items) == Node("SOURCE_FILE", items, Sem0)

\* fn f() { stmt* }: a statement binds x or y, refers to x, is a block that
\* binds x, or is a nested fn item
Stmts ==
    {LetBinding("x"), LetBinding("y"), LocalRef("x"), Block(<<LetBinding("x")>>),
     FnItem(<<>>)}
FnFiles == {SourceFile(<<FnItem(b)>>) : b \in SeqsUpTo(Stmts, MaxStmts)}

\* A string literal of four bytes; with char_ranges, one escape at [1,3)
PlainString == Tok("STRING", 4, Sem0)
EscapedString ==
    Tok("STRING", 4, [Sem0 EXCEPT !.char_ranges = TRUE, !.escapes = <<[s |-> 1, e |-> 3]>>])
Comment == Tok("COMMENT", 2, Sem0)
\* The same literal where the expansion hands it to format_args!: it is the
\* format template (string 1), with one placeholder at [3,4)
FormatString ==
    Tok("STRING", 4, [EscapedString.sem EXCEPT !.fmt_found = 1, !.fmt_id = 1,
                                              !.specifiers = <<[s |-> 3, e |-> 4]>>])

\* What sema.descend_into_macros answers for a token of a macro call's token
\* tree: <<>> (the token itself) or the token of the expansion, with the
\* kinds of its parent and further ancestors and the semantic answers
\* about the token and about its parent.  The token of the expansion has a
\* text range of its own, in the expansion: here always [7,8).
Expansion(kind, pkind, anc, tsem, psem) ==
    <<[kind |-> kind, pkind |-> pkind, anc |-> anc, tsem |-> tsem, psem |-> psem,
       s |-> 7, e |-> 8]>>
ExpandsTo(tok, exp) == [tok EXCEPT !.sem.exp = exp]
MacroArgs ==
    {Ident,
     ExpandsTo(Ident, Expansion("IDENT", "NAME_REF", <<"PATH_SEGMENT", "PATH", "PATH_EXPR">>,
                                Sem0, Sem0)),
     ExpandsTo(Ident, Expansion("IDENT", "NAME", <<"IDENT_PAT", "LET_STMT">>, Sem0,
                                [Sem0 EXCEPT !.cls = "Definition", !.name = "x"])),
     ExpandsTo(EscapedString, Expansion("STRING", "LITERAL", <<"ARG_LIST">>,
                                        EscapedString.sem, Sem0)),
     ExpandsTo(EscapedString, Expansion("STRING", "TOKEN_TREE", <<"MACRO_CALL">>,
                                        FormatString.sem, Sem0)),
     Comment,
     Tok("IF_KW", 2, Sem0)}

MacroPath(generic_args) ==
    Node("PATH", <<Node("PATH_SEGMENT", <<UnresolvedRef>> \o generic_args, Sem0)>>, Sem0)
MacroCall(lead, generic_args, args) ==
    Node("MACRO_CALL",
         lead \o <<MacroPath(generic_args), Punct("BANG"),
                   Node("TOKEN_TREE", <<Punct("L_PAREN")>> \o args \o <<Punct("R_PAREN")>>,
                        Sem0)>>,
         Sem0)
\* foo::<bar!()>!(..): a macro call in the generic arguments of the path
NestedCall == Node("GENERIC_ARG_LIST", <<MacroCall(<<>>, <<>>, <<>>)>>, Sem0)
MacroFiles ==
    {SourceFile(<<MacroCall(lead, ga, args)>> \o trail) :
        lead \in {<<>>, <<Comment>>},
        ga \in {<<>>, <<NestedCall>>},
        args \in SeqsUpTo(MacroArgs, MaxArgs),
        trail \in {<<>>, <<EscapedString>>}}

\* #![path] and #![path(arg)], alone or followed by a name reference
AttrItem(tt) ==
    Node("ATTR",
         <<Punct("POUND"), Punct("BANG"), Punct("L_BRACK"), MacroPath(<<>>)>>
            \o tt \o <<Punct("R_BRACK")>>,
         Sem0)
AttrFiles ==
    {SourceFile(<<AttrItem(tt)>> \o trail) :
        tt \in {<<>>,
                <<Node("TOKEN_TREE", <<Punct("L_PAREN"), Ident, Punct("R_PAREN")>>, Sem0)>>,
                <<Node("TOKEN_TREE", <<Punct("L_PAREN"), PlainString, Punct("R_PAREN")>>,
                       Sem0)>>},
        trail \in {<<>>, <<UnresolvedRef>>}}

\* macro_rules! m { $type x } : a keyword the rule highlighter takes for a
\* metavariable, and an ordinary keyword
MacroRulesFiles ==
    {SourceFile(
       <<Node("MACRO_RULES",
              <<Ident, Punct("BANG"),
                Node("NAME", <<Ident>>,
                     [Sem0 EXCEPT !.cls = "Definition",
                                  !.d = [Def0 EXCEPT !.variant = "Macro"]]),
                Node("TOKEN_TREE",
                     <<Punct("L_CURLY"), Punct("DOLLAR"),
                       Tok("TYPE_KW", 4, [Sem0 EXCEPT !.metavar = TRUE]),
                       Tok("IF_KW", 2, Sem0), Punct("R_CURLY")>>,
                     Sem0)>>,
              Sem0)>> \o trail) :
        trail \in {<<>>, <<PlainString>>}}

Files == FnFiles \cup MacroFiles \cup AttrFiles \cup MacroRulesFiles

(***************************************************************************)
(* highlight: the traversal.                                               *)
(*                                                                         *)
(* The collaborators whose code lives in other files of the crate          *)
(* (format.rs, injection.rs, macro_rules.rs) are inputs here: the files    *)
(* contain no format-string macro, no documentation comment with a code    *)
(* block and no raw string, so FormatStringHighlighter and the two         *)
(* injections add nothing, and whether MacroRulesHighlighter::highlight    *)
(* answers Some for a token is the token's `metavar`.                      *)
(***************************************************************************)
Children(t, i) == {j \in (i + 1)..t[i].last : t[j].parent = i}
FirstChild(t, i, kinds) ==
    LET c == {j \in Children(t, i) : t[j].kind \in kinds}
    IN IF c = {} THEN 0 ELSE CHOOSE j \in c : \A k \in c : j <= k
RangeOf(e) == [s |-> e.s, e |-> e.e]

\* SyntaxNode::covering_element followed by the step from a token to its
\* parent: the deepest node whose range contains the requested range
RECURSIVE covering_node(_, _, _)
covering_node(t, i, range) ==
    LET inner == {j \in Children(t, i) : contains_range(t[j], range)}
    IN IF inner = {} \/ t[i].tok THEN i
       ELSE LET j == CHOOSE k \in inner : \A m \in inner : k <= m
            IN IF t[j].tok THEN i ELSE covering_node(t, j, range)

root_of(t, range_to_highlight) ==
    IF range_to_highlight = <<>> THEN 1 ELSE covering_node(t, 1, range_to_highlight[1])
range_of(t, range_to_highlight) ==
    IF range_to_highlight = <<>> THEN RangeOf(t[1]) ELSE range_to_highlight[1]

\* preorder_with_tokens: the event after ev in the walk of root
Enter(i) == [enter |-> TRUE, el |-> i]
Leave(i) == [enter |-> FALSE, el |-> i]
NoEvent == Enter(0)
next_event(t, root, e) ==
    LET i == e.el IN
    IF e.enter
    THEN IF i < Len(t) /\ t[i + 1].parent = i THEN Enter(i + 1) ELSE Leave(i)
    ELSE IF i = root THEN NoEvent
    ELSE IF t[i].last < Len(t) /\ t[t[i].last + 1].parent = t[i].parent
    THEN Enter(t[i].last + 1)
    ELSE Leave(t[i].parent)

\* The local variables of highlight, lines 71-80
Locals(st, shadow, mc, mr, mrh, fsh, attr) ==
    [stack |-> st, bindings_shadow_count |-> shadow, current_macro_call |-> mc,
     current_macro_rules |-> mr, macro_rules_highlighter |-> mrh,
     format_string_highlighter |-> fsh, inside_attribute |-> attr]
\* Mutant of fresh_locals: the shadow-count table of the previous call is kept
locals_keeping_shadow_count == Locals(new, bindings_shadow_count, 0, 0, FALSE, 0, FALSE)

fresh_locals == Locals(new, ShadowCleared, 0, 0, FALSE, 0, FALSE)

macro_call_range(t, mc) ==
    LET path == FirstChild(t, mc, {"PATH"})
        segment == IF path = 0 THEN 0 ELSE FirstChild(t, path, {"PATH_SEGMENT"})
        name_ref == IF segment = 0 THEN 0 ELSE FirstChild(t, segment, {"NAME_REF"})
        sibs == {j \in Children(t, mc) : j >= path /\ t[j].kind \in {"BANG", "IDENT"}}
    IN IF name_ref = 0 THEN <<>>
       ELSE <<[s |-> t[name_ref].s,
               e |-> IF sibs = {} THEN t[name_ref].e
                     ELSE t[CHOOSE j \in sibs : \A k \in sibs : k <= j].e]>>

\* element_to_highlight: kind, ancestor kinds and semantic answers of what is
\* classified, and whether it is a token
Target(kind, anc, sem, tok) == [kind |-> kind, anc |-> anc, sem |-> sem, tok |-> tok]
element_to_highlight(t, el, in_macro) ==
    LET e == t[el] IN
    IF ~in_macro \/ e.sem.exp = <<>>
    THEN Target(e.kind, AncestorKinds(t, el), e.sem, e.tok)
    ELSE LET x == e.sem.exp[1] IN
         IF x.kind = "IDENT" /\ x.pkind \in {"NAME", "NAME_REF"}
         THEN Target(x.pkind, x.anc, x.psem, FALSE)
         ELSE Target(x.kind, <<x.pkind>> \o x.anc, x.tsem, TRUE)

\* sema.descend_into_macros(token): the semantic answers about the token it returns
descended_sem(t, el) ==
    IF t[el].sem.exp = <<>> THEN t[el].sem ELSE t[el].sem.exp[1].tsem

\* FormatStringHighlighter (format.rs).  check_for_format_string(parent)
\* remembers the string that stands as format template under `parent`, if
\* parent belongs to a formatting macro, and otherwise keeps what it has;
\* fmt_found is that string (0: none).
check_for_format_string(fsh, sem) == IF sem.fmt_found # 0 THEN sem.fmt_found ELSE fsh

RECURSIVE add_pieces(_, _, _, _)
add_pieces(st, pieces, start, h) ==
    IF pieces = <<>> THEN st
    ELSE add_pieces(add(st, HighlightedRange(Head(pieces).s + start, Head(pieces).e + start,
                                             h, NoHash)),
                    Tail(pieces), start, h)

\* highlight_format_string: for the remembered string, the pieces of its
\* placeholders are added in a frame of their own and merged with pop
highlight_format_string(st, fsh, sem, start) ==
    IF fsh = 0 \/ fsh # sem.fmt_id THEN Ok(st)
    ELSE pop(add_pieces(push(st), sem.specifiers, start, Hl("FormatSpecifier", {})))

\* Mutant of add_escapes: the pieces are placed three bytes further right
RECURSIVE add_escapes_shifted(_, _, _)
add_escapes_shifted(st, pieces, start) ==
    IF pieces = <<>> THEN st
    ELSE add_escapes_shifted(
             add(st, HighlightedRange(Head(pieces).s + start + 3, Head(pieces).e + start + 3,
                                      Hl("EscapeSequence", {}), NoHash)),
             Tail(pieces), start)

RECURSIVE add_escapes(_, _, _)
add_escapes(st, pieces, start) ==
    IF pieces = <<>> THEN st
    ELSE add_escapes(add(st, HighlightedRange(Head(pieces).s + start, Head(pieces).e + start,
                                              Hl("EscapeSequence", {}), NoHash)),
                     Tail(pieces), start)

\* Mutant of text_range: the range of the token that descend_into_macros returned
text_range_of_expansion(t, el) ==
    IF t[el].sem.exp = <<>> THEN RangeOf(t[el])
    ELSE [s |-> t[el].sem.exp[1].s, e |-> t[el].sem.exp[1].e]

\* line 163: `range`, the text range of the element of the event
text_range(t, el) == RangeOf(t[el])

\* Mutant of event_frame: a leave event does not merge a frame that has no entries
event_frame_keeps_empty(st, enter) ==
    IF enter THEN Ok(push(st))
    ELSE IF Len(st) >= 1 /\ Last(st) = <<>> THEN Ok(st)
    ELSE pop(st)

\* lines 85-88: the frame is pushed or popped before anything is skipped
event_frame(st, enter) == IF enter THEN Ok(push(st)) ELSE pop(st)

\* The body of the loop for an Enter event: the set of outcomes (more than
\* one only where pop_and_inject's binary search may answer either way)
enter_event(ls, t, el, range_to_highlight, syntactic) ==
    LET e == t[el]
        pushed == [ls EXCEPT !.stack = event_frame(ls.stack, TRUE).st]
        in_macro == ls.current_macro_call # 0 /\ e.kind # "COMMENT"
    IN
    IF ~intersects(range_to_highlight, e) THEN {Ok(pushed)}
    ELSE IF ~e.tok /\ e.kind = "MACRO_CALL"
    THEN LET range == macro_call_range(t, el) IN
         {Ok([pushed EXCEPT
                !.stack = IF range = <<>> THEN @
                          ELSE add(@, HighlightedRange(range[1].s, range[1].e,
                                                       Hl("Macro", {}), NoHash)),
                !.current_macro_call = el])}
    ELSE IF ~e.tok /\ e.kind = "MACRO_RULES"
    THEN {Ok([pushed EXCEPT !.macro_rules_highlighter = TRUE, !.current_macro_rules = el])}
    ELSE
    LET at == [pushed EXCEPT !.inside_attribute = IF ~e.tok /\ e.kind = "ATTR" THEN TRUE ELSE @]
    IN
    IF in_macro /\ ~(e.tok /\ t[e.parent].kind = "TOKEN_TREE") THEN {Ok(at)}
    ELSE
    LET target == element_to_highlight(t, el, in_macro)
        r == highlight_element(target.kind, target.anc, target.sem,
                               at.bindings_shadow_count, syntactic)
        counted == [at EXCEPT
                      !.bindings_shadow_count = r.shadow,
                      !.format_string_highlighter =
                           IF in_macro THEN check_for_format_string(@, descended_sem(t, el))
                           ELSE @]
        highlight == WithModIf(r.h, at.inside_attribute, "attribute")
        \* macro_rules_highlighter.highlight(..).is_none()
        no_rule_highlight == ~(at.macro_rules_highlighter /\ target.sem.metavar)
        range == text_range(t, el)
        added == IF no_rule_highlight
                 THEN [counted EXCEPT
                         !.stack = add(@, HighlightedRange(range.s, range.e, highlight, r.b))]
                 ELSE counted
    IN
    IF ~r.some THEN {Ok(counted)}
    ELSE IF ~(target.tok /\ target.kind = "STRING") THEN {Ok(added)}
    ELSE
    LET f == highlight_format_string(added.stack, added.format_string_highlighter,
                                     target.sem, range.s)
    IN
    IF ~f.ok THEN {f}
    ELSE IF ~target.sem.char_ranges THEN {Ok([added EXCEPT !.stack = f.st])}
    ELSE {IF m.ok THEN Ok([added EXCEPT !.stack = m.st]) ELSE m :
            m \in pop_and_inject(add_escapes(push(f.st), target.sem.escapes, range.s), <<>>)}

\* Mutant of leave_event: leaving a macro call keeps the format string state
leave_event_keeping_format_string(ls, t, el, range_to_highlight) ==
    LET e == t[el]
        p == event_frame(ls.stack, FALSE)
    IN
    IF ~p.ok THEN p
    ELSE IF ~intersects(range_to_highlight, e) THEN Ok([ls EXCEPT !.stack = p.st])
    ELSE IF ~e.tok /\ e.kind = "MACRO_CALL" /\ ls.current_macro_call # el
    THEN Panic("assert_eq!(current_macro_call, Some(mc))")
    ELSE IF ~e.tok /\ e.kind = "MACRO_RULES" /\ ls.current_macro_rules # el
    THEN Panic("assert_eq!(current_macro_rules, Some(mac))")
    ELSE Ok([ls EXCEPT
               !.stack = p.st,
               !.current_macro_call = IF ~e.tok /\ e.kind = "MACRO_CALL" THEN 0 ELSE @,
               !.current_macro_rules = IF ~e.tok /\ e.kind = "MACRO_RULES" THEN 0 ELSE @,
               !.macro_rules_highlighter =
                    IF ~e.tok /\ e.kind = "MACRO_RULES" THEN FALSE ELSE @,
               !.inside_attribute = IF ~e.tok /\ e.kind = "ATTR" THEN FALSE ELSE @])

\* The body of the loop for a Leave event
leave_event(ls, t, el, range_to_highlight) ==
    LET e == t[el]
        p == event_frame(ls.stack, FALSE)
    IN
    IF ~p.ok THEN p
    ELSE IF ~intersects(range_to_highlight, e) THEN Ok([ls EXCEPT !.stack = p.st])
    ELSE IF ~e.tok /\ e.kind = "MACRO_CALL" /\ ls.current_macro_call # el
    THEN Panic("assert_eq!(current_macro_call, Some(mc))")
    ELSE IF ~e.tok /\ e.kind = "MACRO_RULES" /\ ls.current_macro_rules # el
    THEN Panic("assert_eq!(current_macro_rules, Some(mac))")
    ELSE Ok([ls EXCEPT
               !.stack = p.st,
               !.current_macro_call = IF ~e.tok /\ e.kind = "MACRO_CALL" THEN 0 ELSE @,
               !.format_string_highlighter =
                    IF ~e.tok /\ e.kind = "MACRO_CALL" THEN 0 ELSE @,
               !.current_macro_rules = IF ~e.tok /\ e.kind = "MACRO_RULES" THEN 0 ELSE @,
               !.macro_rules_highlighter =
                    IF ~e.tok /\ e.kind = "MACRO_RULES" THEN FALSE ELSE @,
               !.inside_attribute = IF ~e.tok /\ e.kind = "ATTR" THEN FALSE ELSE @])

(***************************************************************************)
(* The traversal as a state machine.  One behaviour calls highlight three  *)
(* times on the same file with the same semantic answers: without a        *)
(* viewport, then twice with one and the same viewport (or again none).    *)
(***************************************************************************)
Calls == <<"whole file", "viewport", "again">>
Viewports(t) == {<<>>} \cup {<<RangeOf(t[i])>> : i \in 1..Len(t)}

SetLocals(ls) ==
    /\ stack' = ls.stack
    /\ bindings_shadow_count' = ls.bindings_shadow_count
    /\ current_macro_call' = ls.current_macro_call
    /\ current_macro_rules' = ls.current_macro_rules
    /\ macro_rules_highlighter' = ls.macro_rules_highlighter
    /\ format_string_highlighter' = ls.format_string_highlighter
    /\ inside_attribute' = ls.inside_attribute
TheLocals ==
    Locals(stack, bindings_shadow_count, current_macro_call, current_macro_rules,
           macro_rules_highlighter, format_string_highlighter, inside_attribute)

\* highlight returned r, or unwound with the panic r
Return(r) ==
    /\ res' = Append(res, r)
    /\ ev' = NoEvent
    /\ pc' = IF run < Len(Calls) THEN "call" ELSE "done"
    /\ UNCHANGED <<viewport, run, localvars, stack>>

HInit ==
    /\ tree \in {Parse(f) : f \in Files}
    /\ syntactic_name_ref_highlighting \in BOOLEAN
    /\ viewport = <<>>
    /\ run = 0
    /\ pc = "call"
    /\ ev = NoEvent
    /\ res = <<>>
    /\ stack = new
    /\ bindings_shadow_count = ShadowCleared
    /\ current_macro_call = 0
    /\ current_macro_rules = 0
    /\ macro_rules_highlighter = FALSE
    /\ format_string_highlighter = 0
    /\ inside_attribute = FALSE
    /\ last = <<>>
    /\ adds = 0
    /\ NoWorkspace

\* lines 47-80: the call, its root and its fresh local variables
highlight_call ==
    /\ pc = "call"
    /\ run' = run + 1
    /\ viewport' \in CASE Calls[run + 1] = "whole file" -> {<<>>}
                        [] Calls[run + 1] = "viewport" -> Viewports(tree)
                        [] Calls[run + 1] = "again" -> {viewport}
    /\ SetLocals(fresh_locals)
    /\ ev' = Enter(root_of(tree, viewport'))
    /\ pc' = "walk"
    /\ UNCHANGED <<res, stackvars, treevars, graphvars>>

Outcome(r, after) ==
    IF r.ok
    THEN /\ SetLocals(r.st)
         /\ ev' = after
         /\ pc' = IF after = NoEvent THEN "walked" ELSE "walk"
         /\ UNCHANGED <<res, viewport, run>>
    ELSE Return(r)

\* lines 84-234, one iteration for WalkEvent::Enter
walk_enter ==
    /\ pc = "walk"
    /\ ev.enter
    /\ \E r \in enter_event(TheLocals, tree, ev.el, range_of(tree, viewport),
                            syntactic_name_ref_highlighting) :
            Outcome(r, next_event(tree, root_of(tree, viewport), ev))
    /\ UNCHANGED <<stackvars, treevars, graphvars>>

\* lines 84-161, one iteration for WalkEvent::Leave
walk_leave ==
    /\ pc = "walk"
    /\ ~ev.enter
    /\ Outcome(leave_event(TheLocals, tree, ev.el, range_of(tree, viewport)),
               next_event(tree, root_of(tree, viewport), ev))
    /\ UNCHANGED <<stackvars, treevars, graphvars>>

\* line 236
highlight_return ==
    /\ pc = "walked"
    /\ Return(flattened(stack))
    /\ UNCHANGED <<stackvars, treevars, graphvars>>

HNext == highlight_call \/ walk_enter \/ walk_leave \/ highlight_return

HSpec == HInit /\ [][HNext]_vars

(***************************************************************************)
(* The classifier on its own: highlight_element applied, in source order,  *)
(* to a defining name and to a reference to the same definition that       *)
(* stands under a generated chain of ancestors.                            *)
(***************************************************************************)
RECURSIVE Wrap(_, _)
Wrap(chain, inner) ==
    IF chain = <<>> THEN inner ELSE Wrap(Tail(chain), Node(Head(chain), <<inner>>, Sem0))

\* The definitions a name can stand for, by what highlight_def reads of them
Local0 == [Def0 EXCEPT !.variant = "Local"]
Defs ==
    {[Def0 EXCEPT !.variant = v] : v \in DefVariants \ {"Local"}}
        \cup {[Local0 EXCEPT !.is_copy = c, !.is_mut = m, !.is_param = p] :
                c \in BOOLEAN, m \in BOOLEAN, p \in BOOLEAN}
        \cup {[Def0 EXCEPT !.variant = "Function", !.is_assoc = TRUE, !.has_self = h,
                           !.is_unsafe = u] : h \in BOOLEAN, u \in BOOLEAN}
        \cup {[Def0 EXCEPT !.variant = "Field", !.union_field = TRUE],
              [Def0 EXCEPT !.variant = "Static", !.is_mut = TRUE],
              [Def0 EXCEPT !.variant = "Const", !.is_assoc = TRUE]}

DefName(d) ==
    Node("NAME", <<Ident>>,
         [Sem0 EXCEPT !.cls = "Definition", !.d = d,
                      !.name = IF d.variant = "Local" THEN "x" ELSE ""])
DefRef(d) ==
    Node("NAME_REF", <<Ident>>,
         [Sem0 EXCEPT !.rcls = "Definition", !.d = d,
                      !.name = IF d.variant = "Local" THEN "x" ELSE ""])

ArgumentChain == <<"PATH_SEGMENT", "PATH", "PATH_EXPR", "ARG_LIST">>
Chains ==
    SeqsUpTo({"PATH_SEGMENT", "PATH", "PATH_EXPR", "ARG_LIST"}, MaxChain)
        \cup {<<"FIELD_EXPR">>, <<"RECORD_PAT_FIELD">>,
              <<"PATH_SEGMENT", "PATH", "PATH_EXPR", "CALL_EXPR">>,
              ArgumentChain, ArgumentChain \o <<"CALL_EXPR">>}

\* `S { x }` as a pattern: the name binds a local and at the same time
\* refers to the field x; NameClass::classify answers PatFieldShorthand
ShorthandName(field) ==
    Node("NAME", <<Ident>>, [Sem0 EXCEPT !.cls = "PatFieldShorthand", !.d = field])
ShorthandFiles ==
    {SourceFile(<<Wrap(<<"IDENT_PAT", "RECORD_PAT_FIELD">>, ShorthandName(field)),
                  Wrap(chain, DefRef(Local0))>>) :
        field \in {[Def0 EXCEPT !.variant = "Field", !.union_field = u] : u \in BOOLEAN},
        chain \in {<<"PATH_SEGMENT", "PATH", "PATH_EXPR">>, ArgumentChain}}

\* `recv.name()`: what sema.resolve_method_call answers about the call, and
\* NameRefClass::classify about its name (nothing, or the function)
Methods ==
    {Method0} \cup
    {[resolved |-> TRUE, func_unsafe |-> fu, call_unsafe |-> cu, has_self |-> hs,
      access |-> a, recv_ty |-> rt, recv_copy |-> rc] :
        fu \in BOOLEAN, cu \in BOOLEAN, hs \in BOOLEAN,
        a \in {"Shared", "Exclusive", "Owned"}, rt \in BOOLEAN, rc \in BOOLEAN}
MethodName(m, rcls) ==
    Node("NAME_REF", <<Ident>>,
         [Sem0 EXCEPT !.method = m, !.rcls = rcls,
                      !.d = [Def0 EXCEPT !.variant = "Function"]])
MethodCallFiles ==
    {SourceFile(<<Node("METHOD_CALL_EXPR", <<MethodName(m, rcls)>>, Sem0)>>) :
        m \in Methods, rcls \in {"None", "Definition"}}

\* A keyword under a parent of some kind: `for` in an impl or a loop, `ref`
\* in an identifier pattern, `self` as parameter or as a path, with what
\* sema answers about it
SelfLocals ==
    {[Local0 EXCEPT !.is_self = TRUE, !.is_mut = m, !.mut_ref = r, !.is_copy = c] :
        m \in BOOLEAN, r \in BOOLEAN, c \in BOOLEAN}
KeywordSems ==
    {Sem0, [Sem0 EXCEPT !.unsafe_ctx = TRUE], [Sem0 EXCEPT !.self_mut = TRUE]}
        \cup {[Sem0 EXCEPT !.path_local = <<d>>] : d \in SelfLocals}
KeywordChains ==
    {<<"IMPL">>, <<"FOR_EXPR">>, <<"IDENT_PAT">>, <<"SELF_PARAM">>,
     <<"PATH_SEGMENT", "PATH", "PATH_EXPR">>, ArgumentChain}
KeywordFiles ==
    {SourceFile(<<Wrap(chain, Tok(k, 2, sem))>>) :
        k \in Keywords, chain \in KeywordChains, sem \in KeywordSems}

\* A name reference that NameRefClass::classify does not resolve, with a
\* lowercase or uppercase first letter, in a file or in an expansion tree
UnresolvedName(upper, field_union) ==
    Node("NAME_REF", <<Ident>>, [Sem0 EXCEPT !.upper = upper, !.field_union = field_union])
UnresolvedChains == Chains \cup {<<"METHOD_CALL_EXPR">>, <<"ATTR">>}
UnresolvedFiles ==
    {Wrap(chain, UnresolvedName(u, fu)) :
        chain \in UnresolvedChains, u \in BOOLEAN, fu \in BOOLEAN}
        \cup {SourceFile(<<Wrap(chain, UnresolvedName(u, fu))>>) :
                chain \in UnresolvedChains, u \in BOOLEAN, fu \in BOOLEAN}

\* A file with the name that defines D followed by a reference to D, or the
\* syntax tree of a macro expansion whose root is the top of the
\* reference's chain; a method call; a keyword; an unresolved name reference
ClassifyFiles ==
    {SourceFile(<<Wrap(<<"IDENT_PAT">>, DefName(d)), Wrap(chain, DefRef(d))>>) :
        d \in Defs, chain \in Chains}
        \cup {Wrap(chain, DefRef(d)) : d \in Defs, chain \in Chains}
        \cup ShorthandFiles
        \cup MethodCallFiles
        \cup KeywordFiles
        \cup UnresolvedFiles

\* What the walk hands to highlight_element: nodes NAME and NAME_REF, and
\* keyword tokens
Targets(t) == {i \in 1..Len(t) : t[i].kind \in {"NAME", "NAME_REF"} \cup Keywords}
NextTarget(t, i) ==
    LET later == {j \in Targets(t) : j > i}
    IN IF later = {} THEN NoEvent ELSE Enter(CHOOSE j \in later : \A k \in later : j <= k)

CInit ==
    /\ tree \in {Parse(f) : f \in ClassifyFiles}
    /\ syntactic_name_ref_highlighting \in BOOLEAN
    /\ ev = NextTarget(tree, 0)
    /\ pc = "classify"
    /\ res = <<>>
    /\ viewport = <<>>
    /\ run = 1
    /\ stack = new
    /\ bindings_shadow_count = ShadowCleared
    /\ current_macro_call = 0
    /\ current_macro_rules = 0
    /\ macro_rules_highlighter = FALSE
    /\ format_string_highlighter = 0
    /\ inside_attribute = FALSE
    /\ last = <<>>
    /\ adds = 0
    /\ NoWorkspace

\* lines 200-205: the call of highlight_element for the element ev.el
classify ==
    /\ pc = "classify"
    /\ LET r == highlight_element(tree[ev.el].kind, AncestorKinds(tree, ev.el),
                                  tree[ev.el].sem, bindings_shadow_count,
                                  syntactic_name_ref_highlighting)
       IN /\ res' = Append(res, [el |-> ev.el, some |-> r.some, h |-> r.h, b |-> r.b])
          /\ bindings_shadow_count' = r.shadow
    /\ ev' = NextTarget(tree, ev.el)
    /\ pc' = IF ev' = NoEvent THEN "classified" ELSE "classify"
    /\ UNCHANGED <<stack, viewport, run, current_macro_call, current_macro_rules,
                   macro_rules_highlighter, format_string_highlighter, inside_attribute,
                   stackvars, treevars, graphvars>>

CNext == classify

ClassifySpec == CInit /\ [][CNext]_vars

(***************************************************************************)
(* The range stack on its own: any sequence of its operations.             *)
(***************************************************************************)
\* The highlight of the entries added to a frame: as in the traversal, where
\* a node's highlight and its children's differ, frames alternate between two.
FrameHighlight(depth) ==
    IF depth % 2 = 1 THEN Hl("attribute", {}) ELSE Hl("string_literal", {})
InjectTag == Hl("generic", {"injected"})
StackRanges(depth) ==
    {HighlightedRange(s, e, FrameHighlight(depth), NoHash) :
        s \in 0..MaxOff, e \in 0..MaxOff}

Op(name, before, arg) == [op |-> name, before |-> before, arg |-> arg]

\* A behaviour builds a stack with push and add, merges the innermost frame
\* once (pop or pop_and_inject) and may then call flattened.
SInit ==
    /\ stack = new
    /\ pc = "run"
    /\ res = <<>>
    /\ last = Op("new", <<>>, <<>>)
    /\ adds = 0
    /\ tree = <<>>
    /\ syntactic_name_ref_highlighting = FALSE
    /\ viewport = <<>>
    /\ run = 0
    /\ ev = <<>>
    /\ bindings_shadow_count = ShadowCleared
    /\ current_macro_call = 0
    /\ current_macro_rules = 0
    /\ macro_rules_highlighter = FALSE
    /\ format_string_highlighter = 0
    /\ inside_attribute = FALSE
    /\ NoWorkspace

SPush ==
    /\ pc = "run"
    /\ Len(stack) < MaxDepth
    /\ stack' = push(stack)
    /\ UNCHANGED <<pc, res, last, adds, treevars, graphvars, walkvars, localvars>>

SAdd ==
    /\ pc = "run"
    /\ adds < MaxAdds
    /\ \E r \in StackRanges(Len(stack)) :
          /\ r.s <= r.e
          /\ stack' = add(stack, r)
    /\ adds' = adds + 1
    /\ UNCHANGED <<pc, res, last, treevars, graphvars, walkvars, localvars>>

SMerged(r, name, arg) ==
    /\ last' = Op(name, stack, arg)
    /\ stack' = IF r.ok THEN r.st ELSE stack
    /\ pc' = IF r.ok THEN "merged" ELSE "panic"
    /\ UNCHANGED <<res, adds, treevars, graphvars, walkvars, localvars>>

SPop ==
    /\ pc = "run"
    /\ SMerged(pop(stack), "pop", <<>>)

SPopAndInject ==
    /\ pc = "run"
    /\ \E ow \in {<<>>, <<InjectTag>>} :
          \E r \in pop_and_inject(stack, ow) : SMerged(r, "pop_and_inject", ow)

SFlattened ==
    /\ pc \in {"run", "merged"}
    /\ LET r == flattened(stack) IN
       /\ pc' = IF r.ok THEN "done" ELSE "panic"
       /\ res' = r.st
    /\ last' = Op("flattened", <<>>, <<>>)
    /\ UNCHANGED <<stack, adds, treevars, graphvars, walkvars, localvars>>

SNext == SPush \/ SAdd \/ SPop \/ SPopAndInject \/ SFlattened

StackSpec == SInit /\ [][SNext]_vars

(***************************************************************************)
(* Claims about the range stack                                            *)
(***************************************************************************)
\* The frames of the last merge: the children frame and the enclosing frame
\* as they were before it, and the enclosing frame after it.
MergedChildren == Last(last.before)
MergedPrev == last.before[Len(last.before) - 1]
Merging(name) == last.op = name /\ Len(last.before) >= 2
PiecesAround(E, C, h) ==
    (IF E.s < C.s THEN <<HighlightedRange(E.s, C.s, h, E.b)>> ELSE <<>>)
        \o <<C>>
        \o (IF C.e < E.e THEN <<HighlightedRange(C.e, E.e, h, E.b)>> ELSE <<>>)

\* C6: pop with a single child C that the enclosing frame's last entry P
\* contains completes and replaces P by [P.start, C.start) with P's
\* highlight, C unchanged, [C.end, P.end) with P's highlight, each parent
\* piece omitted when empty; all entries before P stay.
C6_PopSplitsParent ==
    (/\ Merging("pop")
     /\ Len(MergedChildren) = 1
     /\ MergedPrev # <<>>
     /\ contains_range(Last(MergedPrev), MergedChildren[1]))
    => /\ pc # "panic"
       /\ stack = [Front(last.before) EXCEPT ![Len(last.before) - 1] =
                     Front(MergedPrev)
                       \o PiecesAround(Last(MergedPrev), MergedChildren[1],
                                       Last(MergedPrev).h)]

\* C6 witness: parent [0,3) with child [1,2) became [0,1) parent, [1,2)
\* child, [2,3) parent.
C6_Witness ==
    /\ Merging("pop")
    /\ pc = "merged"
    /\ MergedPrev = <<HighlightedRange(0, 3, FrameHighlight(1), NoHash)>>
    /\ stack = << <<HighlightedRange(0, 1, FrameHighlight(1), NoHash),
                    HighlightedRange(1, 2, FrameHighlight(2), NoHash),
                    HighlightedRange(2, 3, FrameHighlight(1), NoHash)>> >>

\* The first entry, in start order, that contains C (0 when there is none)
FirstContaining(sorted, C) ==
    IF \E i \in 1..Len(sorted) : contains_range(sorted[i], C)
    THEN CHOOSE i \in 1..Len(sorted) :
            /\ contains_range(sorted[i], C)
            /\ \A j \in 1..(i - 1) : ~contains_range(sorted[j], C)
    ELSE 0

\* C7: pop_and_inject(tag) with a single child C that an entry of the
\* enclosing frame contains completes; the first such entry E in start order
\* is replaced by [E.start, C.start), C, [C.end, E.end) with empty remnants
\* omitted, the remnants carrying the replacement tag when one is given and
\* E's highlight otherwise, C and every other entry being unchanged.
C7_InjectSplitsContaining ==
    (/\ Merging("pop_and_inject")
     /\ Len(MergedChildren) = 1
     /\ FirstContaining(sort_by_start(MergedPrev), MergedChildren[1]) # 0)
    => LET sorted == sort_by_start(MergedPrev)
           C == MergedChildren[1]
           i == FirstContaining(sorted, C)
           h == IF last.arg = <<>> THEN sorted[i].h ELSE last.arg[1]
       IN /\ pc # "panic"
          /\ stack = [Front(last.before) EXCEPT ![Len(last.before) - 1] =
                        SubSeq(sorted, 1, i - 1)
                          \o PiecesAround(sorted[i], C, h)
                          \o SubSeq(sorted, i + 1, Len(sorted))]

\* C7 witness: a replacement tag was given, the child [1,2) lay inside the
\* entry [0,3), which was not the only entry of the frame, and both remnants
\* carry the replacement tag.
C7_Witness ==
    /\ Merging("pop_and_inject")
    /\ pc = "merged"
    /\ last.arg = <<InjectTag>>
    /\ Len(MergedPrev) = 2
    /\ MergedChildren = <<HighlightedRange(1, 2, FrameHighlight(2), NoHash)>>
    /\ \E i \in 1..(Len(stack[1]) - 2) :
          /\ stack[1][i] = HighlightedRange(0, 1, InjectTag, NoHash)
          /\ stack[1][i + 1] = MergedChildren[1]
          /\ stack[1][i + 2] = HighlightedRange(2, 3, InjectTag, NoHash)

\* C8: pop right after push (the innermost frame is still empty) completes
\* and leaves every frame below as it was before the push.
C8_PushPopIsIdentity ==
    (Merging("pop") /\ MergedChildren = <<>>)
    => /\ pc # "panic"
       /\ stack = Front(last.before)

\* C8 witness: push then pop over an enclosing frame that holds two entries
C8_Witness ==
    /\ Merging("pop")
    /\ MergedChildren = <<>>
    /\ pc = "merged"
    /\ Len(stack) = 1
    /\ Len(stack[1]) = 2

MergedFrame == Last(stack)
SplitCase ==
    /\ MergedChildren # <<>>
    /\ MergedPrev # <<>>
    /\ contains_range(Last(MergedPrev), MergedChildren[1])

\* C14: a merge (pop, pop_and_inject with or without a replacement tag) of
\* children that are sorted by start and pairwise disjoint into an enclosing
\* frame that is sorted and pairwise disjoint leaves the enclosing frame
\* sorted and pairwise disjoint.
C14_MergeKeepsSortedDisjoint ==
    (/\ Merging("pop") \/ Merging("pop_and_inject")
     /\ pc = "merged"
     /\ sorted_disjoint(MergedPrev)
     /\ sorted_disjoint(MergedChildren))
    => sorted_disjoint(MergedFrame)

\* The first entry, in start order, that contains the start of C (0: none)
FirstContainingStart(sorted, C) ==
    IF \E i \in 1..Len(sorted) : contains(sorted[i], C.s)
    THEN CHOOSE i \in 1..Len(sorted) :
            /\ contains(sorted[i], C.s)
            /\ \A j \in 1..(i - 1) : ~contains(sorted[j], C.s)
    ELSE 0
PartialCase ==
    /\ Merging("pop_and_inject")
    /\ Len(MergedChildren) = 1
    /\ FirstContaining(sort_by_start(MergedPrev), MergedChildren[1]) = 0
    /\ FirstContainingStart(sort_by_start(MergedPrev), MergedChildren[1]) # 0

\* C15: pop_and_inject with a child C that no entry contains but whose start
\* lies inside an entry E completes, with or without a replacement tag: E
\* is cut to [E.start, C.start) (dropped when empty), C follows it, and
\* nothing of E is put back after C.
C15_PartialOverlapTruncates ==
    PartialCase =>
        LET sorted == sort_by_start(MergedPrev)
            C == MergedChildren[1]
            i == FirstContainingStart(sorted, C)
        IN /\ pc # "panic"
           /\ MergedFrame = SubSeq(sorted, 1, i - 1)
                              \o NonEmpty([sorted[i] EXCEPT !.e = C.s])
                              \o <<C>>
                              \o SubSeq(sorted, i + 1, Len(sorted))

\* C16: whenever pop completes, pop_and_inject without a replacement tag,
\* run on the same stack, completes too and leaves the same entries in the
\* same order.
C16_PopSimulatedByInject ==
    (Merging("pop") /\ pc = "merged") =>
        \A r \in pop_and_inject(last.before, <<>>) : r.ok /\ r.st = stack

ChildrenFit ==
    \A i \in 1..Len(MergedChildren) :
        /\ MergedChildren[i].e <= Last(MergedPrev).e
        /\ (IF i = 1 THEN Last(MergedPrev).s ELSE MergedChildren[i - 1].e)
              <= MergedChildren[i].s
Replacement == SubSeq(MergedFrame, Len(MergedPrev), Len(MergedFrame))

\* C18: in the split case pop completes exactly when each child lies in
\* what remains of the parent entry after the previous child; the entries
\* that then stand in place of the parent entry are ascending and disjoint,
\* cover the parent's range without a gap, and are the children and, on
\* every other offset, pieces with the parent's highlight.
C18_SplitWithSeveralChildren ==
    (Merging("pop") /\ SplitCase) =>
        /\ (pc = "panic") <=> ~ChildrenFit
        /\ pc = "merged" =>
              LET P == Last(MergedPrev)
                  q == Replacement
              IN /\ q # <<>>
                 /\ q[1].s = P.s
                 /\ q[Len(q)].e = P.e
                 /\ \A i \in 1..(Len(q) - 1) : q[i].e = q[i + 1].s
                 /\ \A i \in 1..Len(q) : q[i].s <= q[i].e
                 /\ SelectSeq(q, LAMBDA x : x.h # P.h) = MergedChildren
                 /\ \A i \in 1..Len(q) : q[i].h = P.h => ~is_empty(q[i]) /\ q[i].b = P.b

\* Two children were merged into the parent [0,3) that contains them.
C18_Witness ==
    /\ Merging("pop")
    /\ SplitCase
    /\ pc = "merged"
    /\ Len(MergedChildren) = 2
    /\ Last(MergedPrev).s = 0
    /\ Last(MergedPrev).e = 3
    /\ Len(Replacement) >= 3

(***************************************************************************)
(* Properties of the traversal, checked under HSpec.                       *)
(***************************************************************************)
Entries(q) == {q[i] : i \in 1..Len(q)}
EntriesAt(q, e) == {x \in Entries(q) : x.s = e.s /\ x.e = e.e}
Returned(k) == k <= Len(res) /\ res[k].ok
Walked == viewport # <<>> /\ pc = "walked"
InWalk(i) ==
    LET root == root_of(tree, viewport) IN i >= root /\ i <= tree[root].last
Depth(i) == Len(Ancestors(tree, i)) - Len(Ancestors(tree, root_of(tree, viewport)))

\* C1: every sequence highlight returns is ordered by start offset and no
\* entry begins before the entry to its left ends (sharing a boundary is
\* allowed), whatever the tree, the viewport and the flag.
C1_OutputSortedDisjoint ==
    \A k \in 1..Len(res) :
        res[k].ok =>
            \A i \in 1..(Len(res[k].st) - 1) :
                /\ res[k].st[i].s <= res[k].st[i + 1].s
                /\ res[k].st[i].e <= res[k].st[i + 1].s

\* A call returned for a macro call that begins with a comment: the macro
\* range was added before the comment that precedes it, and the two share a
\* boundary in the result.
C1_Witness ==
    /\ Returned(1)
    /\ Len(res[1].st) >= 3
    /\ res[1].st[1].h.tag = "Comment"
    /\ res[1].st[2].h.tag = "Macro"
    /\ res[1].st[1].e = res[1].st[2].s

\* C2: highlight always runs to completion: no call ends in a violated
\* assertion, for every tree, viewport and set of semantic answers.
C2_NeverPanics == \A k \in 1..Len(res) : res[k].ok

\* C3: two calls with the same tree, viewport, flag and semantic answers
\* return identical sequences; nothing survives from one call into the next.
C3_Deterministic == \A k \in 3..Len(res) : res[k] = res[2]

\* The second and third call used a viewport and returned a binding hash.
C3_Witness ==
    /\ Returned(2)
    /\ Returned(3)
    /\ viewport # <<>>
    /\ \E x \in Entries(res[3].st) : x.b # NoHash

Overlaps(a, b) == Max(a.s, b.s) < Min(a.e, b.e)

\* C4: the output for a viewport V is exactly the part of the unrestricted
\* output that intersects V: every emitted entry intersects V and is an
\* entry of the unrestricted output (same range, tag, modifiers and binding
\* hash), and every entry of the unrestricted output that overlaps V is
\* emitted.
C4_ViewportRestriction ==
    (Returned(1) /\ Returned(2) /\ viewport # <<>>) =>
        /\ \A x \in Entries(res[2].st) :
                intersects(viewport[1], x) /\ x \in Entries(res[1].st)
        /\ \A x \in Entries(res[1].st) :
                Overlaps(viewport[1], x) => x \in Entries(res[2].st)

\* C5: while the walk runs the stack holds the base frame and one frame per
\* element entered and not yet left, whether or not the viewport or a macro
\* branch skipped the element; one frame remains when the walk has ended.
C5_FrameDiscipline ==
    /\ pc = "walk" => Len(stack) = 1 + Depth(ev.el) + (IF ev.enter THEN 0 ELSE 1)
    /\ pc = "walked" => Len(stack) = 1
    /\ \A k \in 1..Len(res) : res[k].why # "flattened: more than one frame"

\* A walk ended that skipped one element for the viewport and another in
\* the macro branch.
C5_Witness ==
    /\ Walked
    /\ \E i \in 1..Len(tree) : InWalk(i) /\ ~intersects(viewport[1], tree[i])
    /\ \E i \in 1..Len(tree) :
            /\ InWalk(i)
            /\ intersects(viewport[1], tree[i])
            /\ tree[i].kind = "PATH"
            /\ tree[tree[i].parent].kind = "MACRO_CALL"

IsLocalRef(e) ==
    e.kind = "NAME_REF" /\ e.sem.rcls = "Definition" /\ e.sem.d.variant = "Local"

\* C9: a reference that resolves to a local binding is emitted with the
\* binding hash of that binding's declaration, wherever the reference stands.
C9_RefSharesHash ==
    Returned(1) =>
        \A i \in 1..Len(tree) :
            IsLocalRef(tree[i]) =>
                \A a \in EntriesAt(res[1].st, tree[i]) :
                    \A b \in EntriesAt(res[1].st, tree[tree[i].sem.local]) : a.b = b.b

ScopeOf(i) == FirstOfKind(tree, Ancestors(tree, i), {"BLOCK_EXPR"})
FnOf(i) == FirstOfKind(tree, Ancestors(tree, i), {"FN"})

\* C10: two local bindings of one name declared in nested scopes of the
\* same function are emitted with different binding hashes.
C10_DistinctHashes ==
    Returned(1) =>
        \A i, j \in 1..Len(tree) :
            (/\ IsLocalBinding(tree[i])
             /\ IsLocalBinding(tree[j])
             /\ tree[i].sem.name = tree[j].sem.name
             /\ FnOf(i) = FnOf(j)
             /\ InSeq(ScopeOf(i), Ancestors(tree, ScopeOf(j)))) =>
                \A a \in EntriesAt(res[1].st, tree[i]) :
                    \A b \in EntriesAt(res[1].st, tree[j]) : a.b # b.b

IsSubRange(x) == x.h.tag \in {"EscapeSequence", "FormatSpecifier"}

\* C11: every escape-sequence and format-specifier entry of a result lies
\* within the range of a string token, and no two of these entries overlap.
C11_SubRangesInsideString ==
    \A k \in 1..Len(res) :
        res[k].ok =>
            \A x \in Entries(res[k].st) :
                IsSubRange(x) =>
                    /\ \E i \in 1..Len(tree) :
                            tree[i].kind = "STRING" /\ contains_range(tree[i], x)
                    /\ \A y \in Entries(res[k].st) :
                            (IsSubRange(y) /\ y # x) => ~Overlaps(x, y)

\* A result holds an escape sequence and a format specifier of one string.
C11_Witness ==
    /\ Returned(1)
    /\ \E x, y \in Entries(res[1].st) :
            /\ x.h.tag = "EscapeSequence"
            /\ y.h.tag = "FormatSpecifier"
            /\ \E i \in 1..Len(tree) :
                    /\ tree[i].kind = "STRING"
                    /\ contains_range(tree[i], x)
                    /\ contains_range(tree[i], y)

Answer(i) == CHOOSE r \in Entries(res) : r.el = i
Classified2(i) == \E r \in Entries(res) : r.el = i
RefEl ==
    IF \E i \in 1..Len(tree) : tree[i].kind = "NAME_REF"
    THEN CHOOSE i \in 1..Len(tree) : tree[i].kind = "NAME_REF"
    ELSE 0
NameEl == CHOOSE i \in 1..Len(tree) : tree[i].kind = "NAME"
StartsWith(q, prefix) ==
    Len(q) >= Len(prefix) /\ \A i \in 1..Len(prefix) : q[i] = prefix[i]

\* C12: a name reference that resolves to a local carries the consuming
\* modifier exactly when its four nearest ancestors are path segment, path,
\* path expression and argument list, in this order, and the local's type is
\* not copy; parents_match is true exactly when the chain of ancestors
\* starts with the listed kinds.
C12_ConsumingExactly ==
    (Classified2(RefEl) /\ IsLocalRef(tree[RefEl])) =>
        /\ ("consuming" \in Answer(RefEl).h.mods) <=>
                (/\ StartsWith(AncestorKinds(tree, RefEl), ArgumentChain)
                 /\ ~tree[RefEl].sem.d.is_copy)
        /\ parents_match(AncestorKinds(tree, RefEl), ArgumentChain) <=>
                StartsWith(AncestorKinds(tree, RefEl), ArgumentChain)

\* A reference to a non-copy local in argument position was classified and
\* carries the modifier.
C12_Witness ==
    /\ Classified2(RefEl)
    /\ IsLocalRef(tree[RefEl])
    /\ ~tree[RefEl].sem.d.is_copy
    /\ AncestorKinds(tree, RefEl) = ArgumentChain \o <<"CALL_EXPR">>
    /\ "consuming" \in Answer(RefEl).h.mods

HasName == \E i \in 1..Len(tree) : tree[i].kind = "NAME"
BothClassified ==
    /\ HasName
    /\ Classified2(NameEl)
    /\ Classified2(RefEl)
    /\ tree[RefEl].sem.rcls = "Definition"

LeavingMacroCall ==
    /\ pc = "walk"
    /\ ~ev.enter
    /\ ~tree[ev.el].tok
    /\ tree[ev.el].kind = "MACRO_CALL"
    /\ intersects(range_of(tree, viewport), tree[ev.el])

\* C19: at every leave event of a macro call the active macro call is that
\* very node, and once the event is handled no macro call is active; so it
\* is for a macro call nested in another one too.
C19_LeaveMatchesActiveCall ==
    [][LeavingMacroCall => (current_macro_call = ev.el /\ current_macro_call' = 0)]_vars

InsideAttr(t, x) ==
    \E i \in 1..Len(t) :
        ~t[i].tok /\ t[i].kind = "ATTR" /\ t[i].s <= x.s /\ x.e <= t[i].e
AttrMarked(k) ==
    \A x \in Entries(res[k].st) : ("attribute" \in x.h.mods) <=> InsideAttr(tree, x)

\* C20: every entry for an element inside an attribute carries the
\* attribute modifier and no entry for an element outside one does, in the
\* output for the whole file and in the output for a viewport whose
\* covering element lies inside an attribute.
C20_AttributeModifier ==
    /\ Returned(1) => AttrMarked(1)
    /\ (/\ Returned(2)
        /\ viewport # <<>>
        /\ InSeq("ATTR", AncestorKinds(tree, root_of(tree, viewport))))
       => AttrMarked(2)

\* The walk stands at the enter event of an element other than a comment
\* and a macro call, while a macro call is active
EnteringInMacro ==
    /\ pc = "walk"
    /\ ev.enter
    /\ current_macro_call # 0
    /\ tree[ev.el].kind # "COMMENT"
    /\ ~(~tree[ev.el].tok /\ tree[ev.el].kind = "MACRO_CALL")
StringPieces == {"EscapeSequence", "FormatSpecifier"}

\* C21: while a macro call is active, an element other than a comment gets
\* entries only if it is a token whose parent is a token tree; the entries
\* lie in the range of that source token and begin and end with it, and
\* their highlight and binding hash are those of the token that the
\* expansion holds for it, or of its name or name reference node.
C21_ExpandedClassSourceRange ==
    [][(EnteringInMacro /\ pc' \in {"walk", "walked"} /\ Last(stack') # <<>>) =>
        LET e == tree[ev.el]
            q == Last(stack')
            target == element_to_highlight(tree, ev.el, TRUE)
            r == highlight_element(target.kind, target.anc, target.sem,
                                   bindings_shadow_count, syntactic_name_ref_highlighting)
            h == WithModIf(r.h, inside_attribute, "attribute")
        IN /\ e.tok
           /\ tree[e.parent].kind = "TOKEN_TREE"
           /\ r.some
           /\ q[1].s = e.s
           /\ q[Len(q)].e = e.e
           /\ \A i \in 1..Len(q) :
                 /\ e.s <= q[i].s
                 /\ q[i].e <= e.e
                 /\ q[i].h.tag \notin StringPieces => q[i].h = h /\ q[i].b = r.b
           /\ target.kind # "STRING" => q = <<HighlightedRange(e.s, e.e, h, r.b)>>]_vars

\* The token of a token tree that the expansion binds as the name x has
\* been entered: its frame holds one entry, with the range of the source
\* token and the binding hash of the expanded name.
C21_Witness ==
    /\ pc = "walk"
    /\ ~ev.enter
    /\ current_macro_call # 0
    /\ tree[ev.el].tok
    /\ tree[ev.el].sem.exp # <<>>
    /\ tree[ev.el].sem.exp[1].pkind = "NAME"
    /\ Len(Last(stack)) = 1
    /\ Last(stack)[1].s = tree[ev.el].s
    /\ Last(stack)[1].e = tree[ev.el].e
    /\ Last(stack)[1].b # NoHash

\* The elements of a macro definition for which the rule highlighter
\* answers with a highlight
RuleHighlighted(t) ==
    {i \in 1..Len(t) : t[i].sem.metavar /\ InSeq("MACRO_RULES", AncestorKinds(t, i))}

\* C22: every element of a macro definition for which the rule highlighter
\* answers with a highlight has an entry of its range in the output, with a
\* highlight other than the one highlight_element gives it.
C22_RuleHighlightInOutput ==
    Returned(1) =>
        \A i \in RuleHighlighted(tree) :
            \E x \in EntriesAt(res[1].st, tree[i]) :
                x.h # highlight_element(tree[i].kind, AncestorKinds(tree, i), tree[i].sem,
                                        ShadowCleared, syntactic_name_ref_highlighting).h

InMacroCall(t, x) ==
    \E i \in 1..Len(t) :
        ~t[i].tok /\ t[i].kind = "MACRO_CALL" /\ t[i].s <= x.s /\ x.e <= t[i].e

\* C23: the format string state changes to a remembered string only at an
\* enter event while a macro call is active; whenever the walk goes on with
\* no macro call active the state is the default one; and no entry of a
\* returned sequence outside every macro call is a format specifier.
C23_FormatStateWithinMacroCall ==
    [][/\ (format_string_highlighter' # format_string_highlighter
             /\ format_string_highlighter' # 0)
          => (pc = "walk" /\ ev.enter /\ current_macro_call # 0)
       /\ (pc' \in {"walk", "walked"} /\ current_macro_call' = 0)
          => format_string_highlighter' = 0
       /\ \A k \in 1..Len(res') :
             res'[k].ok =>
                \A x \in Entries(res'[k].st) :
                    x.h.tag = "FormatSpecifier" => InMacroCall(tree, x)]_vars

\* A macro call whose string the expansion passes on as format template was
\* left, its placeholder highlighted, and the walk stands at the string
\* literal that follows the call.
C23_Witness ==
    /\ pc = "walk"
    /\ ev.enter
    /\ tree[ev.el].kind = "STRING"
    /\ current_macro_call = 0
    /\ format_string_highlighter = 0
    /\ ~InMacroCall(tree, tree[ev.el])
    /\ \E x \in Entries(Last(stack)) : x.h.tag = "FormatSpecifier"

\* The name references that are the name of a method call whose callee resolves
MethodRefs ==
    {i \in 1..Len(tree) :
        /\ tree[i].kind = "NAME_REF"
        /\ ParentKind(AncestorKinds(tree, i)) = "METHOD_CALL_EXPR"
        /\ tree[i].sem.method.resolved}

\* C24: the name of a method call whose callee resolves is tagged function
\* with the modifier associated; it has unsafe exactly when the callee is
\* unsafe or the call is flagged unsafe, mutable exactly when the callee
\* takes its receiver by exclusive reference, consuming exactly when it
\* takes it by value and the receiver's type is known and not copy, and no
\* other modifier (so none for a shared receiver).
C24_MethodCallModifiers ==
    \A i \in MethodRefs :
        Classified2(i) =>
            LET m == tree[i].sem.method
                a == Answer(i)
            IN /\ a.some
               /\ a.h.tag = "Function"
               /\ "associated" \in a.h.mods
               /\ ("unsafe" \in a.h.mods) <=> (m.func_unsafe \/ m.call_unsafe)
               /\ ("mutable" \in a.h.mods) <=> (m.has_self /\ m.access = "Exclusive")
               /\ ("consuming" \in a.h.mods) <=>
                     (m.has_self /\ m.access = "Owned" /\ m.recv_ty /\ ~m.recv_copy)
               /\ a.h.mods \subseteq {"associated", "unsafe", "mutable", "consuming"}

\* The name of a call of a safe method that takes a receiver of unknown
\* type by value was classified: associated is its only modifier.
C24_Witness ==
    \E i \in MethodRefs :
        /\ Classified2(i)
        /\ tree[i].sem.method.has_self
        /\ tree[i].sem.method.access = "Owned"
        /\ ~tree[i].sem.method.recv_ty
        /\ ~tree[i].sem.method.recv_copy
        /\ tree[i].sem.rcls = "Definition"
        /\ Answer(i).h = Hl("Function", {"associated"})

KeywordTokens == {i \in 1..Len(tree) : tree[i].tok /\ is_keyword(tree[i].kind)}
KeywordTag(k) ==
    CASE k \in {"TRUE_KW", "FALSE_KW"} -> "BoolLiteral"
      [] k = "SELF_KW" -> "SelfParam"
      [] OTHER -> "Keyword"
IsControlFlow(i) ==
    \/ tree[i].kind \in {"BREAK_KW", "CONTINUE_KW", "ELSE_KW", "IF_KW", "LOOP_KW",
                         "MATCH_KW", "RETURN_KW", "WHILE_KW", "IN_KW"}
    \/ tree[i].kind = "FOR_KW" /\ tree[tree[i].parent].kind # "IMPL"
IsUnsafeRef(i) ==
    /\ tree[i].kind = "REF_KW"
    /\ tree[tree[i].parent].kind = "IDENT_PAT"
    /\ tree[i].sem.unsafe_ctx
\* What sema.resolve_path answers for the path that consists of `self`
SelfPath(i) ==
    LET anc == AncestorKinds(tree, i)
    IN IF Len(anc) >= 2 /\ anc[2] = "PATH" THEN tree[i].sem.path_local ELSE <<>>
SelfMutable(i) ==
    \/ tree[tree[i].parent].kind = "SELF_PARAM" /\ tree[i].sem.self_mut
    \/ /\ SelfPath(i) # <<>>
       /\ SelfPath(i)[1].is_self
       /\ (SelfPath(i)[1].is_mut \/ SelfPath(i)[1].mut_ref)
SelfConsuming(i) ==
    /\ SelfPath(i) # <<>>
    /\ StartsWith(AncestorKinds(tree, i), ArgumentChain)
    /\ ~SelfPath(i)[1].is_copy

\* C25: every keyword token is tagged keyword, except true and false (bool
\* literal) and self (self parameter); control flow is on exactly break,
\* continue, else, if, loop, match, return, while, in, and for unless its
\* parent is an impl; unsafe is on the unsafe keyword; and a keyword that is
\* none of these has a modifier only if it is ref in an identifier pattern
\* flagged unsafe.
C25_KeywordModifiers ==
    \A i \in KeywordTokens :
        Classified2(i) =>
            LET a == Answer(i) IN
            /\ a.some
            /\ a.h.tag = KeywordTag(tree[i].kind)
            /\ ("control_flow" \in a.h.mods) <=> IsControlFlow(i)
            /\ tree[i].kind = "UNSAFE_KW" => "unsafe" \in a.h.mods
            /\ a.h.mods # {} =>
                  (IsControlFlow(i) \/ tree[i].kind = "UNSAFE_KW" \/ IsUnsafeRef(i))

\* C25, amended: as above, and self (tagged self parameter) has mutable
\* exactly when it is a `mut self` parameter or a path that resolves to a
\* self local that is mutable or of mutable reference type, and consuming
\* exactly when it is a path in argument position that resolves to a local
\* whose type is not copy; every other keyword has exactly the modifier
\* named.
C25_KeywordModifiersAndSelf ==
    \A i \in KeywordTokens :
        Classified2(i) =>
            LET a == Answer(i) IN
            /\ a.some
            /\ a.b = NoHash
            /\ a.h.tag = KeywordTag(tree[i].kind)
            /\ a.h.mods =
                 IF tree[i].kind = "SELF_KW"
                 THEN (IF SelfMutable(i) THEN {"mutable"} ELSE {})
                        \cup (IF SelfConsuming(i) THEN {"consuming"} ELSE {})
                 ELSE IF tree[i].kind \in {"TRUE_KW", "FALSE_KW"} THEN {}
                 ELSE (IF IsControlFlow(i) THEN {"control_flow"} ELSE {})
                        \cup (IF tree[i].kind = "UNSAFE_KW" \/ IsUnsafeRef(i)
                              THEN {"unsafe"} ELSE {})

\* `self` in a `mut self` parameter was classified: self parameter, mutable.
C25_Witness ==
    \E i \in KeywordTokens :
        /\ Classified2(i)
        /\ tree[i].kind = "SELF_KW"
        /\ tree[tree[i].parent].kind = "SELF_PARAM"
        /\ tree[i].sem.self_mut
        /\ Answer(i).h = Hl("SelfParam", {"mutable"})

\* The name references outside attributes that are neither the name of a
\* method call whose callee resolves nor classified by NameRefClass, below
\* ancestors as the parser builds them (a path segment lies in a path)
UnresolvedRefs ==
    {i \in 1..Len(tree) :
        LET anc == AncestorKinds(tree, i) IN
        /\ tree[i].kind = "NAME_REF"
        /\ ~InSeq("ATTR", anc)
        /\ ~(ParentKind(anc) = "METHOD_CALL_EXPR" /\ tree[i].sem.method.resolved)
        /\ tree[i].sem.rcls = "None"
        /\ ParentKind(anc) = "PATH_SEGMENT" => (Len(anc) >= 2 /\ anc[2] = "PATH")}
InPathExpr(anc) == Len(anc) >= 3 /\ anc[3] = "PATH_EXPR"
UnderCall(anc) == InPathExpr(anc) /\ Len(anc) >= 4 /\ anc[4] = "CALL_EXPR"
\* The tag by shape, as the claim lists the shapes
ShapeTag(anc, upper) ==
    CASE ParentKind(anc) = "METHOD_CALL_EXPR" -> "Function"
      [] ParentKind(anc) = "FIELD_EXPR" -> "Field"
      [] ParentKind(anc) = "PATH_SEGMENT" ->
            IF UnderCall(anc) THEN "Function"
            ELSE IF upper THEN "Struct"
            ELSE IF InPathExpr(anc) THEN "Const" ELSE "Module"
      [] OTHER -> "UnresolvedReference"

\* C26: a name reference outside attributes that is neither a resolved
\* method call nor resolved semantically is tagged unresolved reference
\* with the syntax-only flag off; with the flag on its tag follows its
\* shape (method call: function; field expression: field; path segment
\* under a call: function; other path segment: struct if uppercase, else
\* const in a path expression and module outside one), and it is unresolved
\* reference only when no shape applies.
C26_SyntacticNameRef ==
    \A i \in UnresolvedRefs :
        Classified2(i) =>
            /\ Answer(i).some
            /\ Answer(i).h.tag =
                 IF syntactic_name_ref_highlighting
                 THEN ShapeTag(AncestorKinds(tree, i), tree[i].sem.upper)
                 ELSE "UnresolvedReference"

\* C26, amended: the same, but a path segment whose path expression has no
\* parent node (the root of an expansion) is tagged unresolved reference.
C26_SyntacticNameRefWithParent ==
    \A i \in UnresolvedRefs :
        Classified2(i) =>
            LET anc == AncestorKinds(tree, i) IN
            /\ Answer(i).some
            /\ Answer(i).b = NoHash
            /\ Answer(i).h.tag =
                 IF ~syntactic_name_ref_highlighting THEN "UnresolvedReference"
                 ELSE IF ParentKind(anc) = "PATH_SEGMENT" /\ InPathExpr(anc) /\ Len(anc) = 3
                 THEN "UnresolvedReference"
                 ELSE ShapeTag(anc, tree[i].sem.upper)

\* With the flag on, an unresolved lowercase name in a path expression that
\* is an argument was classified as const.
C26_Witness ==
    \E i \in UnresolvedRefs :
        /\ Classified2(i)
        /\ syntactic_name_ref_highlighting
        /\ AncestorKinds(tree, i) = ArgumentChain \o <<"SOURCE_FILE">>
        /\ ~tree[i].sem.upper
        /\ Answer(i).h = Hl("Const", {})

(***************************************************************************)
(* crates/project_model/src/workspace.rs: ProjectWorkspace::to_crate_graph *)
(* lowers a workspace into a CrateGraph.  A name is the sequence of its    *)
(* pieces (<<"a", "-", "x">>), a path the sequence of its components, a    *)
(* FileId the path it was loaded from, a CrateId the position of the crate *)
(* in the graph, a Package the position of the package in its workspace.   *)
(***************************************************************************)

\* Packages of a cargo workspace, crates of a project
MaxPkgs == 2

RECURSIVE Concat(_)
Concat(ss) == IF ss = <<>> THEN <<>> ELSE Head(ss) \o Concat(Tail(ss))

\* CrateName::new: Err for a name with a dash
CrateName(name) == \A i \in DOMAIN name : name[i] # "-"

normalize_dashes_verbatim(name) == name

\* CrateName::normalize_dashes: every dash becomes an underscore
normalize_dashes(name) == [i \in DOMAIN name |-> IF name[i] = "-" THEN "_" ELSE name[i]]

\* CrateGraph::add_crate_root: the new crate takes the next id
add_crate_root(graph, file_id, display_name) ==
    Append(graph, [root_file_id |-> file_id, display_name |-> display_name, dependencies |-> <<>>])

\* CrateGraph::dfs_find: target is reachable from `from` along dependencies
dfs_find(graph, target, from) ==
    LET RECURSIVE visit(_)
        visit(visited) ==
            LET more == visited \cup {graph[c].dependencies[i].crate_id :
                                         <<c, i>> \in {<<c, i>> \in visited \X (1..Len(graph)) :
                                                           i \in 1..Len(graph[c].dependencies)}}
            IN IF more = visited THEN visited ELSE visit(more)
    IN target \in visit({from})

\* add_dep: CrateGraph::add_dep refuses an edge that would close a cycle
\* (CyclicDependenciesError); the error is logged and the graph is kept
add_dep(graph, from, name, to) ==
    IF dfs_find(graph, from, to)
    THEN graph
    ELSE [graph EXCEPT ![from].dependencies = Append(@, [crate_id |-> to, name |-> name])]

\* A loop of add_dep calls, one per <<from, name, to>>, in order
RECURSIVE add_deps(_, _)
add_deps(graph, edges) ==
    IF edges = <<>> THEN graph
    ELSE add_deps(add_dep(graph, Head(edges)[1], Head(edges)[2], Head(edges)[3]), Tail(edges))

\* Sysroot::by_name, 0 for None
by_name(sysroot, name) ==
    IF \E i \in 1..Len(sysroot) : sysroot[i].name = name
    THEN CHOOSE i \in 1..Len(sysroot) : sysroot[i].name = name
    ELSE 0

\* sysroot_to_crate_graph: the crates of the sysroot that load, the edges
\* between them, and (public_deps, libproc_macro); `panic` when an unwrap or
\* an index of the function fails
sysroot_to_crate_graph(graph, sysroot, loaded) ==
    LET krates == SelectSeq([i \in 1..Len(sysroot) |-> i], LAMBDA i : sysroot[i].root \in loaded)
        sysroot_crates == [k \in 1..Len(krates) |-> Len(graph) + k]
        has(i) == \E k \in 1..Len(krates) : krates[k] = i
        get(i) == sysroot_crates[CHOOSE k \in 1..Len(krates) : krates[k] = i]
        RECURSIVE roots(_, _)
        roots(g, k) ==
            IF k > Len(krates) THEN g
            ELSE roots(add_crate_root(g, sysroot[krates[k]].root, sysroot[krates[k]].name), k + 1)
        deps == Concat([from \in 1..Len(sysroot) |->
                    Concat([d \in 1..Len(sysroot[from].deps) |->
                        LET to == sysroot[from].deps[d]
                        IN IF has(from) /\ has(to)
                           THEN << <<get(from), sysroot[to].name, get(to)>> >>
                           ELSE <<>>])])
        public == SelectSeq(<< <<"core">>, <<"alloc">>, <<"std">> >>,
                            LAMBDA name : by_name(sysroot, name) # 0)
        proc_macro == by_name(sysroot, <<"proc", "_", "macro">>)
    IN IF \/ \E from \in 1..Len(sysroot) : \E d \in 1..Len(sysroot[from].deps) :
                 ~CrateName(sysroot[sysroot[from].deps[d]].name)
          \/ \E p \in 1..Len(public) : ~has(by_name(sysroot, public[p]))
       THEN [panic |-> TRUE, crate_graph |-> graph, public_deps |-> <<>>, libproc_macro |-> <<>>]
       ELSE [panic |-> FALSE,
             crate_graph |-> add_deps(roots(graph, 1), deps),
             public_deps |-> [p \in 1..Len(public) |->
                                 <<public[p], get(by_name(sysroot, public[p]))>>],
             libproc_macro |-> IF proc_macro # 0 /\ has(proc_macro)
                               THEN <<get(proc_macro)>> ELSE <<>>]

\* add_target_crate_root: a crate for the file, displayed under the package's name
add_target_crate_root(graph, package, file_id) == add_crate_root(graph, file_id, package.name)

\* FxHashMap::get(..).into_iter().flatten() of a map to vectors
crates_of(map, key) == IF key \in DOMAIN map THEN map[key] ELSE <<>>

\* cargo_to_crate_graph, the targets of one package: a crate per target whose
\* root loads, the lib target remembered, a proc-macro target made to depend
\* on the sysroot's proc_macro
RECURSIVE package_targets(_, _, _, _, _)
package_targets(acc, package, loaded, libproc, t) ==
    IF t > Len(package.targets) THEN acc
    ELSE LET tgt == package.targets[t]
             crate_id == Len(acc.crate_graph) + 1
             added == add_target_crate_root(acc.crate_graph, package, tgt.root)
         IN IF tgt.root \notin loaded
            THEN package_targets(acc, package, loaded, libproc, t + 1)
            ELSE package_targets(
                     [crate_graph |-> IF tgt.is_proc_macro /\ libproc # <<>>
                                      THEN add_dep(added, crate_id, <<"proc", "_", "macro">>,
                                                   libproc[1])
                                      ELSE added,
                      lib_tgt |-> IF tgt.kind = "Lib"
                                  THEN <<[crate_id |-> crate_id, name |-> tgt.name]>>
                                  ELSE acc.lib_tgt,
                      crates |-> Append(acc.crates, crate_id)],
                     package, loaded, libproc, t + 1)

package_deps_verbatim(graph, crates, lib_tgt, public) ==
    add_deps(graph, Concat([k \in 1..Len(crates) |->
        (IF lib_tgt # <<>> /\ lib_tgt[1].crate_id # crates[k]
         THEN << <<crates[k], lib_tgt[1].name, lib_tgt[1].crate_id>> >>
         ELSE <<>>)
        \o [d \in 1..Len(public) |-> <<crates[k], public[d][1], public[d][2]>>]]))

\* cargo_to_crate_graph, the edges of one package's crates: to the lib target
\* of the package, then to the public dependencies of the sysroot
package_deps(graph, crates, lib_tgt, public) ==
    add_deps(graph, Concat([k \in 1..Len(crates) |->
        (IF lib_tgt # <<>> /\ lib_tgt[1].crate_id # crates[k]
         THEN << <<crates[k], normalize_dashes(lib_tgt[1].name), lib_tgt[1].crate_id>> >>
         ELSE <<>>)
        \o [d \in 1..Len(public) |-> <<crates[k], public[d][1], public[d][2]>>]]))

\* cargo_to_crate_graph, the loop over the packages of the cargo workspace
RECURSIVE packages_loop(_, _, _, _, _, _)
packages_loop(acc, cargo, loaded, public, libproc, p) ==
    IF p > Len(cargo) THEN acc
    ELSE LET r == package_targets([crate_graph |-> acc.crate_graph, lib_tgt |-> <<>>,
                                   crates |-> <<>>],
                                  cargo[p], loaded, libproc, 1)
         IN packages_loop(
                [crate_graph |-> package_deps(r.crate_graph, r.crates, r.lib_tgt, public),
                 pkg_to_lib_crate |-> IF r.lib_tgt # <<>>
                                      THEN (p :> r.lib_tgt[1].crate_id) @@ acc.pkg_to_lib_crate
                                      ELSE acc.pkg_to_lib_crate,
                 pkg_crates |-> IF r.crates # <<>>
                                THEN (p :> r.crates) @@ acc.pkg_crates
                                ELSE acc.pkg_crates],
                cargo, loaded, public, libproc, p + 1)

dependency_edges_by_package_name(packages, to_lib, crates) ==
    Concat([p \in 1..Len(packages) |->
        Concat([d \in 1..Len(packages[p].dependencies) |->
            LET dep == packages[p].dependencies[d]
                from == crates_of(crates, p)
            IN IF dep.pkg \in DOMAIN to_lib
               THEN [k \in 1..Len(from) |-> <<from[k], packages[dep.pkg].name, to_lib[dep.pkg]>>]
               ELSE <<>>])])

\* The edges from every crate of a package to the lib crate of each of its
\* dependencies, where the map knows one
dependency_edges(packages, to_lib, crates) ==
    Concat([p \in 1..Len(packages) |->
        Concat([d \in 1..Len(packages[p].dependencies) |->
            LET dep == packages[p].dependencies[d]
                from == crates_of(crates, p)
            IN IF dep.pkg \in DOMAIN to_lib
               THEN [k \in 1..Len(from) |-> <<from[k], dep.name, to_lib[dep.pkg]>>]
               ELSE <<>>])])

\* CrateName::new(&dep.name).unwrap() of the dependency loops
dependency_names_ok(packages) ==
    \A p \in 1..Len(packages) : \A d \in 1..Len(packages[p].dependencies) :
        CrateName(packages[p].dependencies[d].name)

\* cargo_to_crate_graph, the loop over the lib targets of the rustc workspace:
\* targets that are no lib or live under a `library` directory are skipped
RECURSIVE rustc_targets(_, _, _, _, _, _)
rustc_targets(acc, rustc_workspace, loaded, public, p, t) ==
    IF p > Len(rustc_workspace) THEN acc
    ELSE IF t > Len(rustc_workspace[p].targets)
    THEN rustc_targets(acc, rustc_workspace, loaded, public, p + 1, 1)
    ELSE LET tgt == rustc_workspace[p].targets[t]
             crate_id == Len(acc.crate_graph) + 1
         IN IF tgt.kind # "Lib" \/ InSeq("library", tgt.root) \/ tgt.root \notin loaded
            THEN rustc_targets(acc, rustc_workspace, loaded, public, p, t + 1)
            ELSE rustc_targets(
                     [crate_graph |->
                          add_deps(add_target_crate_root(acc.crate_graph, rustc_workspace[p],
                                                         tgt.root),
                                   [d \in 1..Len(public) |->
                                       <<crate_id, public[d][1], public[d][2]>>]),
                      pkg_to_lib_crate |-> (p :> crate_id) @@ acc.pkg_to_lib_crate,
                      rustc_pkg_crates |->
                          (p :> Append(crates_of(acc.rustc_pkg_crates, p), crate_id))
                              @@ acc.rustc_pkg_crates],
                     rustc_workspace, loaded, public, p, t + 1)

\* cargo_to_crate_graph, the edges from the crates of the workspace members to
\* the rustc_private libraries
rustc_private_edges(rustc_workspace, cargo, to_lib, crates) ==
    Concat([dep \in 1..Len(rustc_workspace) |->
        IF dep \in DOMAIN to_lib
        THEN Concat([p \in 1..Len(cargo) |->
                 IF cargo[p].is_member
                 THEN LET from == crates_of(crates, p)
                      IN [k \in 1..Len(from) |->
                             <<from[k], normalize_dashes(rustc_workspace[dep].name), to_lib[dep]>>]
                 ELSE <<>>])
        ELSE <<>>])

\* CrateGraph::patch_cfg_if: with a crate cfg_if and a crate std, cfg_if loses
\* its dependencies and std gains cfg_if
patch_cfg_if(graph) ==
    LET find(name) == {c \in 1..Len(graph) : normalize_dashes(graph[c].display_name) = name}
        cfg_if == find(<<"cfg", "_", "if">>)
        std == find(<<"std">>)
        c == CHOOSE x \in cfg_if : \A y \in cfg_if : x <= y
        s == CHOOSE x \in std : \A y \in std : x <= y
    IN IF cfg_if = {} \/ std = {} THEN graph
       ELSE [[graph EXCEPT ![c].dependencies = <<>>]
                EXCEPT ![s].dependencies =
                           Append(@, [crate_id |-> c, name |-> <<"cfg", "_", "if">>])]

\* to_crate_graph of ProjectWorkspace::Cargo begins with the sysroot
cargo_sysroot ==
    /\ pc = "to_crate_graph"
    /\ workspace.tag = "Cargo"
    /\ LET r == sysroot_to_crate_graph(<<>>, workspace.sysroot[1], load)
       IN /\ pc' = IF r.panic THEN "panic" ELSE "packages"
          /\ crate_graph' = r.crate_graph
          /\ public_deps' = r.public_deps
          /\ libproc_macro' = r.libproc_macro
    /\ UNCHANGED <<workspace, load, pkg_to_lib_crate, pkg_crates, rustc_pkg_crates>>
    /\ UNCHANGED <<stack, res, stackvars, treevars, walkvars, localvars>>

cargo_packages ==
    /\ pc = "packages"
    /\ LET r == packages_loop([crate_graph |-> crate_graph, pkg_to_lib_crate |-> pkg_to_lib_crate,
                               pkg_crates |-> pkg_crates],
                              workspace.cargo, load, public_deps, libproc_macro, 1)
       IN /\ crate_graph' = r.crate_graph
          /\ pkg_to_lib_crate' = r.pkg_to_lib_crate
          /\ pkg_crates' = r.pkg_crates
    /\ pc' = "dependencies"
    /\ UNCHANGED <<workspace, load, public_deps, libproc_macro, rustc_pkg_crates>>
    /\ UNCHANGED <<stack, res, stackvars, treevars, walkvars, localvars>>

cargo_dependencies ==
    /\ pc = "dependencies"
    /\ IF dependency_names_ok(workspace.cargo)
       THEN /\ crate_graph' = add_deps(crate_graph,
                                       dependency_edges(workspace.cargo, pkg_to_lib_crate,
                                                        pkg_crates))
            /\ pc' = IF workspace.rustc = <<>> THEN "patch" ELSE "rustc_packages"
       ELSE /\ pc' = "panic"
            /\ UNCHANGED crate_graph
    /\ UNCHANGED <<workspace, load, public_deps, libproc_macro, pkg_to_lib_crate, pkg_crates,
                   rustc_pkg_crates>>
    /\ UNCHANGED <<stack, res, stackvars, treevars, walkvars, localvars>>

rustc_packages ==
    /\ pc = "rustc_packages"
    /\ LET r == rustc_targets([crate_graph |-> crate_graph, pkg_to_lib_crate |-> pkg_to_lib_crate,
                               rustc_pkg_crates |-> rustc_pkg_crates],
                              workspace.rustc[1], load, public_deps, 1, 1)
       IN /\ crate_graph' = r.crate_graph
          /\ pkg_to_lib_crate' = r.pkg_to_lib_crate
          /\ rustc_pkg_crates' = r.rustc_pkg_crates
    /\ pc' = "rustc_dependencies"
    /\ UNCHANGED <<workspace, load, public_deps, libproc_macro, pkg_crates>>
    /\ UNCHANGED <<stack, res, stackvars, treevars, walkvars, localvars>>

rustc_dependencies ==
    /\ pc = "rustc_dependencies"
    /\ IF dependency_names_ok(workspace.rustc[1])
       THEN /\ crate_graph' = add_deps(crate_graph,
                                       dependency_edges(workspace.rustc[1], pkg_to_lib_crate,
                                                        rustc_pkg_crates))
            /\ pc' = "rustc_private"
       ELSE /\ pc' = "panic"
            /\ UNCHANGED crate_graph
    /\ UNCHANGED <<workspace, load, public_deps, libproc_macro, pkg_to_lib_crate, pkg_crates,
                   rustc_pkg_crates>>
    /\ UNCHANGED <<stack, res, stackvars, treevars, walkvars, localvars>>

rustc_private ==
    /\ pc = "rustc_private"
    /\ crate_graph' = add_deps(crate_graph,
                               rustc_private_edges(workspace.rustc[1], workspace.cargo,
                                                   pkg_to_lib_crate, pkg_crates))
    /\ pc' = "patch"
    /\ UNCHANGED <<workspace, load, public_deps, libproc_macro, pkg_to_lib_crate, pkg_crates,
                   rustc_pkg_crates>>
    /\ UNCHANGED <<stack, res, stackvars, treevars, walkvars, localvars>>

\* project_json_to_crate_graph: the sysroot if there is one, a crate per
\* project crate whose root module loads, then the edges of each such crate
project_json_to_crate_graph ==
    /\ pc = "to_crate_graph"
    /\ workspace.tag = "Json"
    /\ LET project == workspace.project
           sysroot_deps == IF workspace.sysroot = <<>>
                           THEN [panic |-> FALSE, crate_graph |-> <<>>, public_deps |-> <<>>,
                                 libproc_macro |-> <<>>]
                           ELSE sysroot_to_crate_graph(<<>>, workspace.sysroot[1], load)
           krates == SelectSeq([i \in 1..Len(project) |-> i],
                               LAMBDA i : project[i].root_module \in load)
           has(i) == \E k \in 1..Len(krates) : krates[k] = i
           get(i) == Len(sysroot_deps.crate_graph) + (CHOOSE k \in 1..Len(krates) : krates[k] = i)
           RECURSIVE roots(_, _)
           roots(g, k) ==
               IF k > Len(krates) THEN g
               ELSE roots(add_crate_root(g, project[krates[k]].root_module,
                                         project[krates[k]].display_name), k + 1)
           edges == Concat([from \in 1..Len(project) |->
                        IF has(from)
                        THEN [d \in 1..Len(sysroot_deps.public_deps) |->
                                 <<get(from), sysroot_deps.public_deps[d][1],
                                   sysroot_deps.public_deps[d][2]>>]
                             \o Concat([d \in 1..Len(project[from].deps) |->
                                    LET dep == project[from].deps[d]
                                    IN IF has(dep.crate_id)
                                       THEN << <<get(from), dep.name, get(dep.crate_id)>> >>
                                       ELSE <<>>])
                        ELSE <<>>])
       IN IF sysroot_deps.panic
          THEN /\ pc' = "panic"
               /\ UNCHANGED crate_graph
          ELSE /\ pc' = "patch"
               /\ crate_graph' = add_deps(roots(sysroot_deps.crate_graph, 1), edges)
    /\ UNCHANGED <<workspace, load, public_deps, libproc_macro, pkg_to_lib_crate, pkg_crates,
                   rustc_pkg_crates>>
    /\ UNCHANGED <<stack, res, stackvars, treevars, walkvars, localvars>>

\* to_crate_graph: the graph of the workspace is patched and returned
to_crate_graph ==
    /\ pc = "patch"
    /\ crate_graph' = patch_cfg_if(crate_graph)
    /\ pc' = "done"
    /\ UNCHANGED <<workspace, load, public_deps, libproc_macro, pkg_to_lib_crate, pkg_crates,
                   rustc_pkg_crates>>
    /\ UNCHANGED <<stack, res, stackvars, treevars, walkvars, localvars>>

(***************************************************************************)
(* The workspaces to_crate_graph is run on.                                *)
(***************************************************************************)
Letter == <<"a", "b", "c", "d">>

TargetData(kind, name, root, is_proc_macro) ==
    [kind |-> kind, name |-> name, root |-> root, is_proc_macro |-> is_proc_macro]
PackageData(name, targets, dependencies, is_member) ==
    [name |-> name, targets |-> targets, dependencies |-> dependencies, is_member |-> is_member]

\* The dependencies of package i among n: on its neighbours, by the name
\* cargo metadata reports for a dependency (dashes already normalised)
DependencyShapes == {"none", "next", "previous", "both"}
Dependencies(shape, prefix, i, n) ==
    (IF shape \in {"previous", "both"} /\ i > 1
     THEN <<[name |-> prefix \o <<Letter[i - 1], "_", "x">>, pkg |-> i - 1]>> ELSE <<>>)
    \o (IF shape \in {"next", "both"} /\ i < n
        THEN <<[name |-> prefix \o <<Letter[i + 1], "_", "x">>, pkg |-> i + 1]>> ELSE <<>>)

\* The targets of package i of a cargo workspace: a lib, a bin, both in either
\* order, or a proc-macro lib; target and package names keep their dashes
CargoTargets(i) ==
    LET lib == TargetData("Lib", <<Letter[i], "-", "x">>, <<Letter[i], "lib.rs">>, FALSE)
        bin == TargetData("Bin", <<Letter[i], "-", "b">>, <<Letter[i], "main.rs">>, FALSE)
        mac == TargetData("Lib", <<Letter[i], "-", "x">>, <<Letter[i], "lib.rs">>, TRUE)
    IN << <<lib>>, <<bin>>, <<lib, bin>>, <<bin, lib>>, <<mac>> >>

\* The targets of package i of the rustc workspace: a lib of the compiler, a
\* lib of the standard library (under `library`), or a bin and a lib
RustcTargets(i) ==
    LET name == <<"r", "-", Letter[i], "-", "x">>
        lib == TargetData("Lib", name, <<"compiler", Letter[i], "lib.rs">>, FALSE)
        std == TargetData("Lib", name, <<"library", Letter[i], "lib.rs">>, FALSE)
        bin == TargetData("Bin", name, <<"compiler", Letter[i], "main.rs">>, FALSE)
    IN << <<lib>>, <<std>>, <<bin, lib>> >>

\* Sysroot::default, or a sysroot with core, alloc, std and proc_macro
Sysroots ==
    LET krate(name, deps) == [name |-> name, root |-> <<"sysroot">> \o name, deps |-> deps]
    IN << <<>>,
          <<krate(<<"core">>, <<>>), krate(<<"alloc">>, <<1>>), krate(<<"std">>, <<2, 1>>),
            krate(<<"proc", "_", "macro">>, <<3>>)>> >>

\* ProjectWorkspace::Cargo without rustc sources
CargoWorkspace(targets, shape, sysroot) ==
    [tag |-> "Cargo", project |-> <<>>, sysroot |-> <<Sysroots[sysroot]>>, rustc |-> <<>>,
     cargo |-> [i \in 1..MaxPkgs |->
                   PackageData(<<Letter[i], "-", "x">>, CargoTargets(i)[targets[i]],
                               Dependencies(shape, <<>>, i, MaxPkgs), TRUE)]]

\* ProjectWorkspace::Cargo with rustc sources: cargo packages of one target,
\* the first a member of the workspace, the others members or not
RustcWorkspace(kinds, members, targets, shape) ==
    [tag |-> "Cargo", project |-> <<>>, sysroot |-> <<Sysroots[2]>>,
     cargo |-> [i \in 1..MaxPkgs |->
                   PackageData(<<Letter[i], "-", "x">>, CargoTargets(i)[kinds[i]], <<>>,
                               i = 1 \/ members)],
     rustc |-> <<[i \in 1..MaxPkgs |->
                     PackageData(<<"r", "-", Letter[i], "-", "x">>, RustcTargets(i)[targets[i]],
                                 Dependencies(shape, <<"r", "_">>, i, MaxPkgs), FALSE)]>>]

\* ProjectWorkspace::Json, with or without a sysroot
JsonWorkspace(first, shape, sysroot) ==
    [tag |-> "Json", cargo |-> <<>>, rustc |-> <<>>,
     sysroot |-> IF sysroot = 0 THEN <<>> ELSE <<Sysroots[sysroot]>>,
     project |-> [i \in 1..MaxPkgs |->
                     [root_module |-> <<Letter[i], "lib.rs">>,
                      display_name |-> IF i = 1 THEN first ELSE <<Letter[i], "-", "x">>,
                      deps |-> [d \in 1..Len(Dependencies(shape, <<>>, i, MaxPkgs)) |->
                                   [name |-> Dependencies(shape, <<>>, i, MaxPkgs)[d].name,
                                    crate_id |->
                                        Dependencies(shape, <<>>, i, MaxPkgs)[d].pkg]]]]]

\* The root files of a workspace
Roots(packages) ==
    {packages[i].targets[t].root : <<i, t>> \in {<<i, t>> \in (1..Len(packages)) \X (1..2) :
                                                    t <= Len(packages[i].targets)}}
WorkspaceRoots(ws) ==
    Roots(ws.cargo)
    \cup (IF ws.rustc = <<>> THEN {} ELSE Roots(ws.rustc[1]))
    \cup {ws.project[i].root_module : i \in 1..Len(ws.project)}
    \cup (IF ws.sysroot = <<>> THEN {} ELSE {ws.sysroot[1][i].root : i \in 1..Len(ws.sysroot[1])})

\* What `load` answers: Some for every root file but at most one (with a
\* rustc workspace, one of the rustc workspace's)
Loads(ws) ==
    {WorkspaceRoots(ws) \ missing :
        missing \in {{}} \cup {{r} : r \in IF ws.rustc = <<>> THEN WorkspaceRoots(ws)
                                             ELSE Roots(ws.rustc[1])}}

WInit ==
    /\ \/ \E targets \in [1..MaxPkgs -> 1..5], shape \in DependencyShapes, sysroot \in 1..2 :
              workspace = CargoWorkspace(targets, shape, sysroot)
       \/ \E kinds \in [1..MaxPkgs -> 1..2], members \in BOOLEAN,
             targets \in [1..MaxPkgs -> 1..3], shape \in DependencyShapes :
              workspace = RustcWorkspace(kinds, members, targets, shape)
       \/ \E first \in {<<"a", "-", "x">>, <<"cfg", "-", "if">>}, shape \in DependencyShapes,
             sysroot \in 0..2 :
              workspace = JsonWorkspace(first, shape, sysroot)
    /\ load \in Loads(workspace)
    /\ pc = "to_crate_graph"
    /\ crate_graph = <<>>
    /\ public_deps = <<>>
    /\ libproc_macro = <<>>
    /\ pkg_to_lib_crate = <<>>
    /\ pkg_crates = <<>>
    /\ rustc_pkg_crates = <<>>
    /\ stack = new
    /\ res = <<>>
    /\ last = Op("new", <<>>, <<>>)
    /\ adds = 0
    /\ tree = <<>>
    /\ syntactic_name_ref_highlighting = FALSE
    /\ viewport = <<>>
    /\ run = 0
    /\ ev = <<>>
    /\ bindings_shadow_count = ShadowCleared
    /\ current_macro_call = 0
    /\ current_macro_rules = 0
    /\ macro_rules_highlighter = FALSE
    /\ format_string_highlighter = 0
    /\ inside_attribute = FALSE

WNext ==
    \/ cargo_sysroot
    \/ cargo_packages
    \/ cargo_dependencies
    \/ rustc_packages
    \/ rustc_dependencies
    \/ rustc_private
    \/ project_json_to_crate_graph
    \/ to_crate_graph

WSpec == WInit /\ [][WNext]_vars

(***************************************************************************)
(* Properties of to_crate_graph.                                           *)
(***************************************************************************)
\* The crate made for a root file, 0 when the graph has none
CrateOf(root) ==
    IF \E c \in 1..Len(crate_graph) : crate_graph[c].root_file_id = root
    THEN CHOOSE c \in 1..Len(crate_graph) : crate_graph[c].root_file_id = root
    ELSE 0
GraphEdge(from, name, to) ==
    \E d \in 1..Len(crate_graph[from].dependencies) :
        crate_graph[from].dependencies[d] = [crate_id |-> to, name |-> name]
EdgeNames(from) ==
    {crate_graph[from].dependencies[d].name : d \in 1..Len(crate_graph[from].dependencies)}
LoadedRoots(package) ==
    {package.targets[t].root : t \in {t \in 1..Len(package.targets) :
                                         package.targets[t].root \in load}}
LibRoots(package) ==
    {package.targets[t].root : t \in {t \in 1..Len(package.targets) :
                                         /\ package.targets[t].root \in load
                                         /\ package.targets[t].kind = "Lib"}}
\* cargo_to_crate_graph is past its loop over the dependencies of the packages
CargoLinked ==
    /\ pc \in {"rustc_packages", "rustc_dependencies", "rustc_private", "patch"}
    /\ workspace.tag = "Cargo"

\* C27 (as stated): once the dependency loop of cargo_to_crate_graph is done,
\* every crate of a package P has an edge, under the dependency's name, to the
\* lib crate of each dependency D of P that has a loaded lib target, and no
\* edge under that name when D has none.
C27_DependencyEdges ==
    CargoLinked =>
        \A p \in 1..Len(workspace.cargo) : \A d \in 1..Len(workspace.cargo[p].dependencies) :
            \A r \in LoadedRoots(workspace.cargo[p]) :
                LET dep == workspace.cargo[p].dependencies[d]
                    lib == LibRoots(workspace.cargo[dep.pkg])
                IN IF lib # {}
                   THEN \A l \in lib : GraphEdge(CrateOf(r), dep.name, CrateOf(l))
                   ELSE dep.name \notin EdgeNames(CrateOf(r))

\* C27 (amended): the edge to D's lib crate is there exactly when the crate of
\* P is not reachable from D's lib crate, that is unless the edge would close
\* a dependency cycle; without a loaded lib target of D there is no edge.
C27_DependencyEdgesUnlessCyclic ==
    CargoLinked =>
        \A p \in 1..Len(workspace.cargo) : \A d \in 1..Len(workspace.cargo[p].dependencies) :
            \A r \in LoadedRoots(workspace.cargo[p]) :
                LET dep == workspace.cargo[p].dependencies[d]
                    lib == LibRoots(workspace.cargo[dep.pkg])
                IN IF lib # {}
                   THEN \A l \in lib : GraphEdge(CrateOf(r), dep.name, CrateOf(l))
                                          <=> ~dfs_find(crate_graph, CrateOf(r), CrateOf(l))
                   ELSE dep.name \notin EdgeNames(CrateOf(r))

\* A package with two loaded targets has its edges to a dependency's lib crate
C27_Witness ==
    /\ CargoLinked
    /\ \E p \in 1..Len(workspace.cargo) : \E d \in 1..Len(workspace.cargo[p].dependencies) :
           LET dep == workspace.cargo[p].dependencies[d]
               lib == LibRoots(workspace.cargo[dep.pkg])
               from == LoadedRoots(workspace.cargo[p])
           IN /\ Cardinality(from) = 2
              /\ lib # {}
              /\ \A r \in from : \A l \in lib : GraphEdge(CrateOf(r), dep.name, CrateOf(l))

\* cargo_to_crate_graph is past its loop over the packages
CargoLoaded ==
    /\ pc \in {"dependencies", "rustc_packages", "rustc_dependencies", "rustc_private", "patch"}
    /\ workspace.tag = "Cargo"
NonLibRoots(package) == LoadedRoots(package) \ LibRoots(package)
LibTargetNames(package) ==
    {package.targets[t].name : t \in {t \in 1..Len(package.targets) :
                                         /\ package.targets[t].root \in load
                                         /\ package.targets[t].kind = "Lib"}}
\* The crates of the sysroot that Sysroot::public_deps names
PublicCrates ==
    {k \in 1..Len(workspace.sysroot[1]) :
        workspace.sysroot[1][k].name \in {<<"core">>, <<"alloc">>, <<"std">>}}

\* C28: once the package loop of cargo_to_crate_graph is done, every crate of
\* a non-lib target depends on the lib crate of its package under the lib
\* target's name with dashes turned into underscores and on every public
\* dependency of the sysroot, and no crate has an edge to itself.
C28_PackageEdges ==
    CargoLoaded =>
        /\ \A p \in 1..Len(workspace.cargo) : \A r \in NonLibRoots(workspace.cargo[p]) :
               /\ \A l \in LibRoots(workspace.cargo[p]) :
                      \E name \in LibTargetNames(workspace.cargo[p]) :
                          GraphEdge(CrateOf(r),
                                    [i \in 1..Len(name) |-> IF name[i] = "-" THEN "_" ELSE name[i]],
                                    CrateOf(l))
               /\ \A k \in PublicCrates :
                      GraphEdge(CrateOf(r), workspace.sysroot[1][k].name,
                                CrateOf(workspace.sysroot[1][k].root))
        /\ \A c \in 1..Len(crate_graph) : \A d \in 1..Len(crate_graph[c].dependencies) :
               crate_graph[c].dependencies[d].crate_id # c

\* A bin crate next to a lib crate with a dash in its name, under a sysroot
\* with public dependencies
C28_Witness ==
    /\ CargoLoaded
    /\ PublicCrates # {}
    /\ \E p \in 1..Len(workspace.cargo) :
           \E r \in NonLibRoots(workspace.cargo[p]) : \E l \in LibRoots(workspace.cargo[p]) :
               /\ \E name \in LibTargetNames(workspace.cargo[p]) : InSeq("-", name)
               /\ \E d \in 1..Len(crate_graph[CrateOf(r)].dependencies) :
                      crate_graph[CrateOf(r)].dependencies[d].crate_id = CrateOf(l)

\* The edges a step adds to the graph
NewEdges(c) ==
    {crate_graph'[c].dependencies[d] :
        d \in (Len(crate_graph[c].dependencies) + 1)..Len(crate_graph'[c].dependencies)}

\* A linking step of the rustc section adds only edges to rustc lib crates
RustcEdgesTargetRustc ==
    pc \in {"rustc_dependencies", "rustc_private"} =>
        \A c \in 1..Len(crate_graph) : \A e \in NewEdges(c) :
            \E p \in 1..Len(workspace.rustc[1]) :
                crate_graph[e.crate_id].root_file_id \in LibRoots(workspace.rustc[1][p])

\* C29: a step of the rustc section of cargo_to_crate_graph that links the
\* rustc packages to each other, or the workspace members to the rustc_private
\* libraries, adds only edges to crates made from lib targets of the rustc
\* workspace.
C29_RustcEdgesTargetRustc == [][RustcEdgesTargetRustc]_vars

\* C30: whatever root files fail to load, to_crate_graph does not abort, and
\* the graph holds crates of loaded root files only, with edges between them.
C30_LoadFailuresTolerated ==
    /\ pc # "panic"
    /\ \A c \in 1..Len(crate_graph) :
           /\ crate_graph[c].root_file_id \in load
           /\ \A d \in 1..Len(crate_graph[c].dependencies) :
                  crate_graph[c].dependencies[d].crate_id \in 1..Len(crate_graph)
====
